---- MODULE Spec2Model ----
(***************************************************************************)
(* ArX_mini: the memory store (textGen/memory.py), the retrieval service   *)
(* (textGen/rag.py) and the loop controller (agents/agentgen.py on top of  *)
(* textGen/textgen.py), each as a state machine of its own specification:  *)
(*   Spec       Memory: save_short_term / retrieve_short_term / reboot     *)
(*   ReadSpec   Memory constructed over files left by an earlier run       *)
(*   LoopSpec   AgentGen: base_loop / react_loop / arx_loop                *)
(*   SplitSpec  TextSplitter.split_text                                    *)
(*   StoreSpec  SimpleVectorStore.add / search                             *)
(*   RagSpec    RAG.ingest_documents / query / retrieve_context             *)
(*   ChatSpec   TextGen.chat_completion with tool_names                    *)
(*   SaveSpec   Memory: save_short_term / reboot only                      *)
(*   SharedSpec two Memory instances saving to the same files              *)
(*   ContextSpec the index of a TextGen: memory lookup and tool summaries  *)
(***************************************************************************)
EXTENDS Integers, Sequences, FiniteSets, TLC

VARIABLES
    \* ---- Memory (memory.py) ----
    short_term_limit,     \* self.short_term_limit
    long_term_interval,   \* self.long_term_interval
    short_term_counter,   \* self._short_term_counter
    short_term_file,      \* content of short_term_memory.json: a list of entries
    long_term_file,       \* content of long_term_memory.json: a list of insights
    clock,                \* datetime.now(): one tick per save_short_term call
    all_saved,            \* history: every interaction passed to save_short_term, in call order
    promoted_on,          \* history: the calls (by number) that invoked store_long_term_memory
    mem_result,           \* how the last Memory operation ended: "none", "ok", "raised",
                          \* "write_raised" (a write to disk raised)
    short_term_disk,      \* short_term_memory.json on disk: "json", "missing", "corrupt"
    long_term_disk,       \* long_term_memory.json on disk: "json", "missing", "corrupt"
    mem_op,               \* the last event on the store: a Memory operation, or "file_lost"
    retrieved,            \* what the last Memory operation returned (<<>> for None)
    rebooted_at,          \* history: the value of clock at the last reboot_memory (0: none)
    promo,                \* history: what the promotion of the last operation did
    \* ---- AgentGen loops (agentgen.py, textgen.py) ----
    loop,                 \* which loop was called: "base", "react", "arx"
    max_depth,            \* argument max_depth
    human_in_loop,        \* argument human_in_loop (arx_loop)
    tools,                \* self.tools: the registry built by TextGen.__init__
    pc,                   \* position of the controller inside the loop
    i,                    \* the loop variable of `for i in range(max_depth)`
    tool_names,           \* result of select_best_tools in this iteration
    response,             \* local `response`
    outs,                 \* outputs of the phases of this iteration, by phase name
    prompts,              \* history: what the last prompt of each phase embedded
    cumulative_feedback,  \* local `cumulative_feedback` (arx_loop): the feedback lines
    iterations,           \* history: number of iterations started
    gen_calls,            \* history: number of Generator calls made
    gen_failed,           \* history: a Generator call has raised
    first_marker,         \* history: iteration whose checked response first held the marker (0: none)
    save_calls,           \* history: number of save_short_term calls the loop's completions made
    raised_in,            \* where the exception that ended the loop was raised ("none": nowhere)
    \* ---- TextSplitter.split_text (rag.py) ----
    chunk_size,           \* self.chunk_size
    chunk_overlap,        \* self.chunk_overlap
    words,                \* local `words` = text.split(): word k is the k-th word of the text
    split_i,              \* local `i`
    chunks,               \* local `chunks`: the TextChunks emitted so far
    split_pc,             \* "loop": at the while test; "done": returned
    \* ---- SimpleVectorStore (rag.py) ----
    embeddings,           \* self.embeddings: None or a NumPy array
    store_chunks,         \* self.chunks
    last_op,              \* the last call: "none", "add", "search", "ingest_documents",
                          \* "query", "retrieve_context", "retrieve_memory_context"
    last_k,               \* argument k of the last search
    last_query,           \* argument query of the last search
    store_result,         \* how the last call ended: "none", "ok", "raised" (NumPy raised),
                          \* "embed_raised" (the embedding function raised), "read_raised"
                          \* (retrieve_long_term raised)
    results,              \* what the last search returned: (text, score) pairs, each with
                          \* the index of top_indices it was built from
    context,              \* what the last retrieve_context returned: the joined string, as
                          \* the sequence of its pieces
    added,                \* history: number of chunk texts the last call appended to the index
    \* ---- TextGen.chat_completion (textgen.py) ----
    chat_pc,              \* position inside chat_completion
    chat_tool_names,      \* argument tool_names
    store_interaction,    \* argument store_interaction
    tool_idx,             \* position of `for tool in tool_names` (1-based, next to run)
    tool_outputs,         \* local `tool_outputs`
    integrated_response,  \* local `integrated_response`: "none", "initial", "integrated"
    chat_log,             \* history: the calls chat_completion made, in order
    chat_raised_in,       \* where the exception that ended the call was raised
    \* ---- two Memory instances over the same files (memory.py) ----
    serialized,           \* the callers make each save_short_term call after the previous
                          \* one has returned
    writer_pc,            \* per instance: "idle", or "loaded" (inside save_short_term,
                          \* after its read of short_term_memory.json)
    writer_data,          \* per instance: local `short_term_data` of the call in progress
    writer_counter        \* per instance: self._short_term_counter

mem_vars == <<short_term_limit, long_term_interval, short_term_counter, short_term_file,
              long_term_file, clock, all_saved, promoted_on, mem_result,
              short_term_disk, long_term_disk, mem_op, retrieved, rebooted_at, promo>>

loop_vars == <<loop, max_depth, human_in_loop, tools, pc, i, tool_names, response, outs, prompts,
               cumulative_feedback, iterations, gen_calls, gen_failed, first_marker, save_calls,
               raised_in>>

split_vars == <<chunk_size, chunk_overlap, words, split_i, chunks, split_pc>>

store_vars == <<embeddings, store_chunks, last_op, last_k, last_query, store_result, results,
                context, added>>

chat_vars == <<chat_pc, chat_tool_names, store_interaction, tool_idx, tool_outputs,
               integrated_response, chat_log, chat_raised_in>>

shared_vars == <<serialized, writer_pc, writer_data, writer_counter>>

vars == <<mem_vars, loop_vars, split_vars, store_vars, chat_vars, shared_vars>>

----------------------------------------------------------------------------
\* Bounds of the model.
MaxSaves == 3
MaxLimit == 3
MaxInterval == 2
MaxDepth == 3
MaxWords == 5
MaxChunkSize == 3
MaxChunks == 7
MaxStored == 3
MaxK == 3
MaxPersisted == 2
MaxInsights == 2
MaxToolNames == 3

\* The configurations a Memory can be constructed with: the constructor checks nothing.
Limits == -1 .. MaxLimit
Intervals == -1 .. MaxInterval

UserMessages == {"", "uu"}
AssistantMessages == {"", "a"}

----------------------------------------------------------------------------
\* Pure helpers of the Memory class.

\* len(entry["user"]) + len(entry["assistant"])
EntryTokens(entry) == Len(entry.user) + Len(entry.assistant)

RECURSIVE TotalTokens(_)
\* sum(len(entry["user"]) + len(entry["assistant"]) for entry in short_term_data)
TotalTokens(data) ==
    IF data = <<>> THEN 0 ELSE EntryTokens(Head(data)) + TotalTokens(Tail(data))

RECURSIVE TrimNewestFirst(_, _)
\* eviction from the wrong end: pop() instead of pop(0)
TrimNewestFirst(data, limit) ==
    IF TotalTokens(data) > limit /\ data # <<>>
    THEN TrimNewestFirst(SubSeq(data, 1, Len(data) - 1), limit)
    ELSE data

RECURSIVE TrimKeepingNewest(_, _)
\* an eviction that stops at the entry just appended
TrimKeepingNewest(data, limit) ==
    IF TotalTokens(data) > limit /\ Len(data) > 1
    THEN TrimKeepingNewest(Tail(data), limit)
    ELSE data

RECURSIVE Trim(_, _)
\* while total_tokens > self.short_term_limit and short_term_data: pop(0)
Trim(data, limit) ==
    IF TotalTokens(data) > limit /\ data # <<>>
    THEN Trim(Tail(data), limit)
    ELSE data

RECURSIVE SelectBackwardSkipping(_, _, _)
\* the backward loop with `continue` in place of `break`: an entry that does not fit is
\* skipped and older ones are still tried
SelectBackwardSkipping(rest, total_tokens, limit) ==
    IF rest = <<>> THEN <<>>
    ELSE LET entry == rest[Len(rest)]
             entry_tokens == EntryTokens(entry)
         IN  IF total_tokens + entry_tokens > limit
             THEN SelectBackwardSkipping(SubSeq(rest, 1, Len(rest) - 1), total_tokens, limit)
             ELSE Append(SelectBackwardSkipping(SubSeq(rest, 1, Len(rest) - 1),
                                                total_tokens + entry_tokens, limit), entry)

RECURSIVE SelectBackward(_, _, _)
\* the loop of retrieve_short_term over reversed(short_term_data); `rest` is what is
\* still to be visited, oldest first, so its last element is visited next
SelectBackward(rest, total_tokens, limit) ==
    IF rest = <<>> THEN <<>>
    ELSE LET entry == rest[Len(rest)]
             entry_tokens == EntryTokens(entry)
         IN  IF total_tokens + entry_tokens > limit
             THEN <<>>
             ELSE Append(SelectBackward(SubSeq(rest, 1, Len(rest) - 1),
                                        total_tokens + entry_tokens, limit), entry)

RECURSIVE SelectBackwardBelow(_, _, _)
\* the backward loop with `>=` in place of `>`: an entry that fills the limit exactly
\* stops the loop
SelectBackwardBelow(rest, total_tokens, limit) ==
    IF rest = <<>> THEN <<>>
    ELSE LET entry == rest[Len(rest)]
             entry_tokens == EntryTokens(entry)
         IN  IF total_tokens + entry_tokens >= limit
             THEN <<>>
             ELSE Append(SelectBackwardBelow(SubSeq(rest, 1, Len(rest) - 1),
                                             total_tokens + entry_tokens, limit), entry)

\* a retrieval that keeps the total strictly below the limit
RetrieveBelowLimit(data, limit) == SelectBackwardBelow(data, 0, limit)

\* retrieve_short_term without the final reversed(): newest first
RetrieveNewestFirst(data, limit) ==
    LET selected == SelectBackward(data, 0, limit)
    IN  [k \in 1 .. Len(selected) |-> selected[Len(selected) + 1 - k]]

\* Memory.retrieve_short_term on a readable file
retrieve_short_term(data, limit) == SelectBackward(data, 0, limit)

\* Python's seq[-n:]
LastN(seq, n) ==
    IF n > 0 THEN SubSeq(seq, (IF Len(seq) > n THEN Len(seq) - n + 1 ELSE 1), Len(seq))
    ELSE IF n = 0 THEN seq
    ELSE SubSeq(seq, (IF -n > Len(seq) THEN Len(seq) + 1 ELSE -n + 1), Len(seq))

\* if self._short_term_counter >= self.long_term_interval
PromotionDue(counter, interval) == counter >= interval

\* What the Generator answers, or does, in the calls of one promotion:
\*   decision: the stripped, lower-cased answer of the decision call, or "raise"
\*   extraction: "ok" or "raise" (only consulted when decision = "yes")
\*             ("maybe": any answer that is not "yes" or "no")
Decisions == {"yes", "no", "maybe", "raise"}
Extractions == {"ok", "raise"}

\* the extraction call is made after the answer "yes" only
ExtractionsAfter(decision) == IF decision = "yes" THEN Extractions ELSE {"ok"}

----------------------------------------------------------------------------
\* json.load of a backing file inside try/except (FileNotFoundError, JSONDecodeError):
\* the content of a readable file, [] otherwise
ReadOrEmpty(disk, content) == IF disk = "json" THEN content ELSE <<>>

\* no promotion was made
NoPromotion == [invoked |-> FALSE, decision |-> "none", gen_calls |-> 0]

\* Memory.__init__ : a fresh store (reboot_memory is called by every entry point)
MemInit ==
    /\ short_term_limit \in Limits
    /\ long_term_interval \in Intervals
    /\ short_term_counter = 0
    /\ short_term_file = <<>>
    /\ long_term_file = <<>>
    /\ clock = 0
    /\ all_saved = <<>>
    /\ promoted_on = {}
    /\ mem_result = "none"
    /\ short_term_disk = "json"
    /\ long_term_disk = "json"
    /\ mem_op = "__init__"
    /\ retrieved = <<>>
    /\ rebooted_at = 0
    /\ promo = NoPromotion

\* a promotion whose exceptions are swallowed
PromotionReturnsAlways(data, decision, extraction) == TRUE

\* Memory.store_long_term_memory(interactions) on the short-term file `data`:
\* TRUE iff it returns normally (no Generator call of it raises, and save_long_term,
\* which reads the long-term file outside any try, does not raise either)
PromotionReturns(data, decision, extraction) ==
    LET recent_memories == LastN(retrieve_short_term(data, short_term_limit), long_term_interval)
    IN  \/ recent_memories = <<>>
        \/ decision \in {"no", "maybe"}
        \/ decision = "yes" /\ extraction = "ok" /\ long_term_disk = "json"

\* the long-term file store_long_term_memory leaves behind (save_long_term on "yes")
PromotionLongTerm(data, decision, extraction) ==
    LET recent_memories == LastN(retrieve_short_term(data, short_term_limit), long_term_interval)
    IN  IF recent_memories # <<>> /\ decision = "yes" /\ extraction = "ok"
           /\ long_term_disk = "json"
        THEN Append(long_term_file, [insight |-> "insight", timestamp |-> clock + 1])
        ELSE long_term_file

\* the Generator calls store_long_term_memory makes: none without recent memories,
\* the decision call, and the extraction call after the answer "yes"
PromotionRecord(data, decision) ==
    LET recent_memories == LastN(retrieve_short_term(data, short_term_limit), long_term_interval)
    IN  IF recent_memories = <<>>
        THEN [invoked |-> TRUE, decision |-> "none", gen_calls |-> 0]
        ELSE [invoked |-> TRUE, decision |-> decision,
              gen_calls |-> IF decision = "yes" THEN 2 ELSE 1]

\* Memory.save_short_term(system_message, user_message, assistant_message)
save_short_term(user_message, assistant_message, decision, extraction) ==
    LET entry == [system |-> "s", user |-> user_message,
                  assistant |-> assistant_message, timestamp |-> clock + 1]
        short_term_data == Trim(Append(ReadOrEmpty(short_term_disk, short_term_file), entry),
                                short_term_limit)
        counter == short_term_counter + 1
        due == PromotionDue(counter, long_term_interval)
        returns == PromotionReturns(short_term_data, decision, extraction)
    IN  /\ clock' = clock + 1
        /\ all_saved' = Append(all_saved, entry)
        /\ short_term_file' = short_term_data
        /\ short_term_disk' = "json"
        /\ promoted_on' = IF due THEN promoted_on \cup {clock + 1} ELSE promoted_on
        /\ long_term_file' = IF due
                             THEN PromotionLongTerm(short_term_data, decision, extraction)
                             ELSE long_term_file
        /\ promo' = IF due THEN PromotionRecord(short_term_data, decision) ELSE NoPromotion
        /\ short_term_counter' = IF due /\ returns THEN 0 ELSE counter
        /\ mem_result' = IF due /\ ~returns THEN "raised" ELSE "ok"
        /\ mem_op' = "save_short_term"
        /\ retrieved' = <<>>
        /\ UNCHANGED <<short_term_limit, long_term_interval, long_term_disk, rebooted_at>>

\* The writes of one save_short_term call, any of which the operating system can refuse:
\* json.dump to short_term_memory.json, the Markdown rendering of it, and, in a promotion
\* that reaches save_long_term, json.dump to long_term_memory.json and its rendering.
WriteFailures == {"short_term_json", "short_term_markdown", "long_term_json",
                  "long_term_markdown"}

\* Memory.save_short_term(system_message, user_message, assistant_message) when the
\* write `failing` raises OSError. No write is inside a try, so the call ends there:
\* what was written before stays, what comes after is not done. open(path, "w") may
\* have truncated the JSON file before the error (`damaged`).
save_short_term_write_fails(user_message, assistant_message, failing, damaged) ==
    LET entry == [system |-> "s", user |-> user_message,
                  assistant |-> assistant_message, timestamp |-> clock + 1]
        short_term_data == Trim(Append(ReadOrEmpty(short_term_disk, short_term_file), entry),
                                short_term_limit)
        counter == short_term_counter + 1
        recent_memories == LastN(retrieve_short_term(short_term_data, short_term_limit),
                                 long_term_interval)
        in_promotion == failing \in {"long_term_json", "long_term_markdown"}
    IN  /\ in_promotion =>
               \* the promotion runs, is answered "yes" and reaches save_long_term
               /\ PromotionDue(counter, long_term_interval)
               /\ recent_memories # <<>>
               /\ long_term_disk = "json"
        /\ clock' = clock + 1
        /\ all_saved' = Append(all_saved, entry)
        /\ IF failing = "short_term_json"
           THEN /\ short_term_disk' = IF damaged THEN "corrupt" ELSE short_term_disk
                /\ short_term_file' = IF damaged THEN <<>> ELSE short_term_file
           ELSE /\ short_term_disk' = "json"
                /\ short_term_file' = short_term_data
        /\ IF failing = "long_term_json"
           THEN /\ long_term_disk' = IF damaged THEN "corrupt" ELSE long_term_disk
                /\ long_term_file' = IF damaged THEN <<>> ELSE long_term_file
           ELSE IF failing = "long_term_markdown"
           THEN /\ long_term_file' = Append(long_term_file,
                                            [insight |-> "insight", timestamp |-> clock + 1])
                /\ UNCHANGED long_term_disk
           ELSE UNCHANGED <<long_term_disk, long_term_file>>
        \* self._short_term_counter += 1 comes after the short-term writes; the reset
        \* comes after store_long_term_memory
        /\ short_term_counter' = IF in_promotion THEN counter ELSE short_term_counter
        /\ promoted_on' = IF in_promotion THEN promoted_on \cup {clock + 1} ELSE promoted_on
        /\ promo' = IF in_promotion
                    THEN [invoked |-> TRUE, decision |-> "yes", gen_calls |-> 2]
                    ELSE NoPromotion
        /\ mem_result' = "write_raised"
        /\ mem_op' = "save_short_term"
        /\ retrieved' = <<>>
        /\ UNCHANGED <<short_term_limit, long_term_interval, rebooted_at>>

SaveShortTerm ==
    /\ clock < MaxSaves
    /\ \E u \in UserMessages, a \in AssistantMessages, d \in Decisions : \E e \in ExtractionsAfter(d) :
           save_short_term(u, a, d, e)

\* Memory.retrieve_short_term(), on this instance or on a Memory newly constructed
\* with the same configuration (the constructor leaves existing files alone)
RetrieveShortTerm ==
    /\ retrieved' = retrieve_short_term(ReadOrEmpty(short_term_disk, short_term_file),
                                        short_term_limit)
    /\ mem_op' = "retrieve_short_term"
    /\ mem_result' = "ok"
    /\ promo' = NoPromotion
    /\ UNCHANGED <<short_term_limit, long_term_interval, short_term_counter, short_term_file,
                   long_term_file, clock, all_saved, promoted_on, short_term_disk,
                   long_term_disk, rebooted_at>>

\* Memory.retrieve_long_term(): the file is read outside any try
retrieve_long_term ==
    /\ mem_op' = "retrieve_long_term"
    /\ IF long_term_disk = "json"
       THEN /\ retrieved' = [k \in 1 .. Len(long_term_file) |-> long_term_file[k].insight]
            /\ mem_result' = "ok"
       ELSE /\ retrieved' = <<>>
            /\ mem_result' = "raised"
    /\ promo' = NoPromotion
    /\ UNCHANGED <<short_term_limit, long_term_interval, short_term_counter, short_term_file,
                   long_term_file, clock, all_saved, promoted_on, short_term_disk,
                   long_term_disk, rebooted_at>>

\* a save that writes the new Insight alone, over what the file held
SaveLongTermReplacing(extracted_insight) ==
    /\ Len(long_term_file) < MaxInsights
    /\ mem_op' = "save_long_term"
    /\ IF long_term_disk = "json"
       THEN /\ long_term_file' = <<[insight |-> extracted_insight, timestamp |-> clock]>>
            /\ mem_result' = "ok"
       ELSE /\ long_term_file' = long_term_file
            /\ mem_result' = "raised"
    /\ retrieved' = <<>>
    /\ promo' = NoPromotion
    /\ UNCHANGED <<short_term_limit, long_term_interval, short_term_counter, short_term_file,
                   clock, all_saved, promoted_on, short_term_disk, long_term_disk,
                   rebooted_at>>

\* Memory.save_long_term(extracted_insight), called directly: the file is read outside
\* any try
save_long_term(extracted_insight) ==
    /\ Len(long_term_file) < MaxInsights
    /\ mem_op' = "save_long_term"
    /\ IF long_term_disk = "json"
       THEN /\ long_term_file' = Append(long_term_file,
                                        [insight |-> extracted_insight, timestamp |-> clock])
            /\ mem_result' = "ok"
       ELSE /\ long_term_file' = long_term_file
            /\ mem_result' = "raised"
    /\ retrieved' = <<>>
    /\ promo' = NoPromotion
    /\ UNCHANGED <<short_term_limit, long_term_interval, short_term_counter, short_term_file,
                   clock, all_saved, promoted_on, short_term_disk, long_term_disk,
                   rebooted_at>>

SaveLongTerm == save_long_term("insight")

\* a reboot that also starts the count of saves anew
RebootResettingCounter ==
    /\ clock > 0
    /\ short_term_file' = <<>>
    /\ long_term_file' = <<>>
    /\ short_term_disk' = "json"
    /\ long_term_disk' = "json"
    /\ mem_result' = "ok"
    /\ mem_op' = "reboot_memory"
    /\ retrieved' = <<>>
    /\ rebooted_at' = clock
    /\ promo' = NoPromotion
    /\ short_term_counter' = 0
    /\ UNCHANGED <<short_term_limit, long_term_interval, clock, all_saved, promoted_on>>

\* a reboot that recreates only the short-term file
RebootShortTermOnly ==
    /\ clock > 0
    /\ short_term_file' = <<>>
    /\ short_term_disk' = "json"
    /\ mem_result' = "ok"
    /\ mem_op' = "reboot_memory"
    /\ retrieved' = <<>>
    /\ rebooted_at' = clock
    /\ promo' = NoPromotion
    /\ UNCHANGED <<short_term_limit, long_term_interval, short_term_counter, clock,
                   all_saved, promoted_on, long_term_file, long_term_disk>>

\* Memory.reboot_memory()
reboot_memory ==
    /\ clock > 0
    /\ short_term_file' = <<>>
    /\ long_term_file' = <<>>
    /\ short_term_disk' = "json"
    /\ long_term_disk' = "json"
    /\ mem_result' = "ok"
    /\ mem_op' = "reboot_memory"
    /\ retrieved' = <<>>
    /\ rebooted_at' = clock
    /\ promo' = NoPromotion
    /\ UNCHANGED <<short_term_limit, long_term_interval, short_term_counter, clock,
                   all_saved, promoted_on>>

\* ---- a Memory constructed over the files an earlier run left behind ----

\* an entry written by an earlier run: the k-th of n, older than every new one
OldEntry(user_message, assistant_message, k, n) ==
    [system |-> "s", user |-> user_message, assistant |-> assistant_message,
     timestamp |-> k - n]

\* what short_term_memory.json can hold when the process starts: any entries, written
\* under whatever limit the earlier run had
PersistedFiles ==
    UNION {{[k \in 1 .. n |-> OldEntry(us[k], as[k], k, n)] :
               us \in [1 .. n -> UserMessages], as \in [1 .. n -> AssistantMessages]} :
           n \in 0 .. MaxPersisted}

\* what long_term_memory.json can hold when the process starts
PersistedInsights == {<<>>, <<[insight |-> "old", timestamp |-> 0]>>}

\* Memory.__init__ over existing files: a file that exists is kept as it is, readable
\* or not; only a missing file is created
ReadInit ==
    /\ short_term_limit \in Limits
    /\ long_term_interval = 1
    /\ short_term_counter = 0
    /\ short_term_disk \in {"json", "corrupt"}
    /\ long_term_disk \in {"json", "corrupt"}
    /\ short_term_file \in (IF short_term_disk = "json" THEN PersistedFiles ELSE {<<>>})
    /\ long_term_file \in (IF long_term_disk = "json" THEN PersistedInsights ELSE {<<>>})
    /\ clock = 0
    /\ all_saved = <<>>
    /\ promoted_on = {}
    /\ mem_result = "none"
    /\ mem_op = "__init__"
    /\ retrieved = <<>>
    /\ rebooted_at = 0
    /\ promo = NoPromotion

\* the first save_short_term of the process, over those files
SaveOverExisting ==
    /\ all_saved = <<>>
    /\ \E u \in UserMessages, a \in AssistantMessages, d \in Decisions : \E e \in ExtractionsAfter(d) :
           save_short_term(u, a, d, e)

\* a backing file disappears: the store is a pair of plain files at a fixed path, and
\* shutil.rmtree in the reboot_memory of another process removes them
FileLost ==
    /\ \/ /\ short_term_disk = "json"
          /\ short_term_disk' = "missing"
          /\ short_term_file' = <<>>
          /\ UNCHANGED <<long_term_disk, long_term_file>>
       \/ /\ long_term_disk = "json"
          /\ long_term_disk' = "missing"
          /\ long_term_file' = <<>>
          /\ UNCHANGED <<short_term_disk, short_term_file>>
    /\ mem_op' = "file_lost"
    /\ retrieved' = <<>>
    /\ promo' = NoPromotion
    /\ UNCHANGED <<short_term_limit, long_term_interval, short_term_counter, clock,
                   all_saved, promoted_on, mem_result, rebooted_at>>

----------------------------------------------------------------------------
\* AgentGen: base_loop, react_loop, arx_loop.

\* A text returned by the Generator: whether it contains 'FINAL RESPONSE:', and the
\* iteration, the phase and the Generator call (by number) that produced it. EmptyText
\* is the Python "".
EmptyText == [marker |-> FALSE, iter |-> 0, phase |-> "none", call |-> 0, keys |-> {}]
GeneratorText(m, it, ph, n) == [marker |-> m, iter |-> it, phase |-> ph, call |-> n, keys |-> {}]

\* OAI.structured_output: return {"error": "JSON parsing failed", "detail": str(e)}.
\* `keys` holds the keys of this dict; it is {} for every other value, whose shape is
\* not modelled.
ErrorValue(it, ph, n) ==
    [marker |-> FALSE, iter |-> it, phase |-> ph, call |-> n, keys |-> {"error", "detail"}]

\* What one Generator call does: answer without the marker, with it, or raise.
Outcomes == {"plain", "marker", "raise"}

\* plan goes through structured_output, whose answer may also be text that json.loads
\* rejects
OutcomesOf(name) == IF name = "plan" THEN Outcomes \cup {"malformed"} ELSE Outcomes

\* a json.loads whose exception is not caught
JsonLoadsEscapesOnMalformed(o) == o = "malformed"

\* try: return json.loads(content)  except Exception as e: return {...}
JsonLoadsEscapes(o) == FALSE

\* Tools has public callables, so TextGen.__init__ registers a non-empty registry;
\* a subclass or a caller may leave self.tools empty.
Registries == {{}, {"get_current_datetime"}}

Feedbacks == {"", " ", "add more detail"}

\* feedback taken as it was typed
StripNothing(feedback) == feedback

\* feedback.strip()
Strip(feedback) == IF feedback = " " THEN "" ELSE feedback

\* TextGen.get_available_tools: one dict {"name", "description"} per registered tool
get_available_tools(registry) ==
    {[type |-> "dict", name |-> t, description |-> "No description provided."] : t \in registry}

\* ", ".join(items) raises TypeError unless every item is a str
JoinRaises(items) == \E x \in items : x.type # "str"

\* range(max_depth + 1): one iteration too many
InRangeInclusive(k, depth) == 0 <= k /\ k <= depth

\* k in range(max_depth)
InRange(k, depth) == 0 <= k /\ k < depth

\* a marker test that never succeeds (a misspelt marker)
IsFinalNever(text) == FALSE

\* "FINAL RESPONSE:" in response
IsFinal(text) == text.marker

\* a controller whose intermediate phases pass store_interaction=False
StoresInteractionFinalOnly(name) == name \in {"chat", "act", "synthesize"}

\* store_interaction of the completion call a phase makes: the loops never pass it, so
\* the default True of chat_completion, structured_output and reasoned_completion holds
StoresInteraction(name) == TRUE

\* memory.save_short_term returns, or raises
SaveOutcomes == {"ok", "raise"}

BasePhases == <<"chat">>
ReactPhases == <<"observe", "reflect", "act">>
ArxPhases == <<"plan", "predict", "draft", "critique", "create", "synthesize">>
AllPhases == {"chat", "observe", "reflect", "act", "plan", "predict", "draft", "critique",
              "create", "synthesize"}
NoOuts == [ph \in AllPhases |-> EmptyText]
NoPrompts == [ph \in AllPhases |-> [texts |-> <<>>, feedback |-> <<>>]]

\* the phases of one iteration of each loop, in the order of the code
PhasesOf(kind) ==
    IF kind = "base" THEN BasePhases ELSE IF kind = "react" THEN ReactPhases ELSE ArxPhases

\* a prompt that embeds only the current output, whatever the phase
PromptOfResponseOnly(name) == [texts |-> <<response>>, feedback |-> <<>>]

\* the texts the f-string of a phase's user_prompt embeds (besides the caller's
\* user_prompt), in the order they appear, and the feedback lines it embeds
PromptOf(name) ==
    [texts |->
        IF name \in {"chat", "observe"} THEN <<response>>
        ELSE IF name = "reflect" THEN <<outs["observe"]>>
        ELSE IF name = "act" THEN <<outs["observe"], outs["reflect"]>>
        ELSE IF name = "plan" THEN <<>>
        ELSE IF name = "predict" THEN <<outs["plan"]>>
        ELSE IF name = "draft" THEN <<outs["plan"], outs["predict"]>>
        ELSE IF name = "critique" THEN <<outs["draft"]>>
        ELSE IF name = "create" THEN <<outs["draft"], outs["critique"]>>
        ELSE <<outs["plan"], outs["predict"], outs["draft"], outs["critique"], outs["create"]>>,
     feedback |-> IF name = "critique" THEN cumulative_feedback ELSE <<>>]

\* positions inside the body of the for loop
BodyPcs == AllPhases \cup {"select", "check", "feedback", "recritique"}

LoopInit ==
    /\ loop \in {"base", "react", "arx"}
    /\ max_depth \in 0 .. MaxDepth
    /\ human_in_loop \in BOOLEAN
    /\ (loop # "arx" => human_in_loop = FALSE)
    /\ tools \in Registries
    /\ pc = "call"
    /\ i = 0
    /\ tool_names = <<>>
    /\ response = EmptyText
    /\ outs = NoOuts
    /\ prompts = NoPrompts
    /\ cumulative_feedback = <<>>
    /\ iterations = 0
    /\ gen_calls = 0
    /\ gen_failed = FALSE
    /\ first_marker = 0
    /\ save_calls = 0
    /\ raised_in = "none"

\* entering iteration k of `for i in range(max_depth)`, or leaving the loop
EnterIteration(k) ==
    IF InRange(k, max_depth)
    THEN /\ i' = k
         /\ pc' = "select"
         /\ iterations' = iterations + 1
    ELSE /\ pc' = "done"
         /\ UNCHANGED <<i, iterations>>

\* response = ""; cumulative_feedback = ""; for i in range(max_depth):
LoopStart ==
    /\ pc = "call"
    /\ EnterIteration(0)
    /\ UNCHANGED <<loop, max_depth, human_in_loop, tools, tool_names, response, outs,
                   prompts, cumulative_feedback, gen_calls, gen_failed, first_marker,
                   save_calls, raised_in>>

\* AgentGen.select_best_tools(user_prompt)
select_best_tools ==
    /\ pc = "select"
    /\ LET available_tools == get_available_tools(tools)
           first == Head(PhasesOf(loop))
       IN  IF available_tools = {}
           THEN \* return []
                /\ tool_names' = <<>>
                /\ pc' = first
                /\ UNCHANGED <<gen_calls, gen_failed, save_calls, raised_in>>
           ELSE IF JoinRaises(available_tools)
           THEN \* print("Available tools:\n" + ", ".join(available_tools) ...)
                /\ pc' = "raised"
                /\ raised_in' = "select_best_tools"
                /\ UNCHANGED <<tool_names, gen_calls, gen_failed, save_calls>>
           ELSE \* self.structured_output(...); a list is kept, anything else becomes []
                \* ("malformed" yields the error value, which is a dict); the answer is
                \* saved before it is returned
                \E answer \in {"list", "dict", "malformed", "raise"}, saved \in SaveOutcomes :
                    LET answered == ~(answer = "raise" \/ JsonLoadsEscapes(answer))
                        stored == answered /\ StoresInteraction("select")
                    IN  /\ (~stored => saved = "ok")
                        /\ gen_calls' = gen_calls + 1
                        /\ gen_failed' = (gen_failed \/ answer = "raise")
                        /\ save_calls' = IF stored THEN save_calls + 1 ELSE save_calls
                        /\ raised_in' = IF answer = "raise" THEN "generator"
                                        ELSE IF JsonLoadsEscapes(answer) THEN "structured_output"
                                        ELSE IF saved = "raise" THEN "memory"
                                        ELSE raised_in
                        /\ pc' = IF ~answered \/ saved = "raise" THEN "raised" ELSE first
                        /\ tool_names' = IF answer = "list" /\ saved = "ok"
                                         THEN <<"get_current_datetime">> ELSE <<>>
    /\ UNCHANGED <<loop, max_depth, human_in_loop, tools, i, response, outs, prompts,
                   cumulative_feedback, iterations, first_marker>>

\* One phase of an iteration: a chat_completion / structured_output /
\* reasoned_completion call whose Generator call answers or raises, and which saves
\* the answer with memory.save_short_term before it returns (the save may raise: a
\* write error, or the promotion it triggers). `checked` phases assign `response`;
\* the others assign their own local.
Phase(kind, name, next, checked) ==
    /\ loop = kind
    /\ pc = name
    /\ \E o \in OutcomesOf(name), saved \in SaveOutcomes :
        LET text == IF o = "malformed"
                    THEN ErrorValue(i + 1, name, gen_calls + 1)
                    ELSE GeneratorText(o = "marker", i + 1, name, gen_calls + 1)
            answered == ~(o = "raise" \/ JsonLoadsEscapes(o))
            stored == answered /\ StoresInteraction(name)
        IN  /\ (~stored => saved = "ok")
            /\ gen_calls' = gen_calls + 1
            /\ prompts' = [prompts EXCEPT ![name] = PromptOf(name)]
            /\ save_calls' = IF stored THEN save_calls + 1 ELSE save_calls
            /\ IF ~answered
               THEN /\ pc' = "raised"
                    /\ raised_in' = IF o = "raise" THEN "generator" ELSE "structured_output"
                    /\ gen_failed' = (gen_failed \/ o = "raise")
                    /\ UNCHANGED <<outs, response, first_marker>>
               ELSE IF saved = "raise"
               THEN /\ pc' = "raised"
                    /\ raised_in' = "memory"
                    /\ UNCHANGED <<outs, response, first_marker, gen_failed>>
               ELSE /\ pc' = next
                    /\ outs' = [outs EXCEPT ![name] = text]
                    /\ response' = IF checked THEN text ELSE response
                    /\ first_marker' = IF checked /\ first_marker = 0 /\ text.marker
                                       THEN i + 1 ELSE first_marker
                    /\ UNCHANGED <<raised_in, gen_failed>>
    /\ UNCHANGED <<loop, max_depth, human_in_loop, tools, i, tool_names,
                   cumulative_feedback, iterations>>

\* base_loop: response = self.chat_completion(...)
BaseChat == Phase("base", "chat", "check", TRUE)
\* react_loop: observation, reflection, response
Observe == Phase("react", "observe", "reflect", FALSE)
Reflect == Phase("react", "reflect", "act", FALSE)
Act == Phase("react", "act", "check", TRUE)
\* arx_loop: plan, prediction, draft, critique, creative_input, response
Plan == Phase("arx", "plan", "predict", FALSE)
Predict == Phase("arx", "predict", "draft", FALSE)
Draft == Phase("arx", "draft", "critique", FALSE)
Critique == Phase("arx", "critique", "create", FALSE)
Create == Phase("arx", "create", "synthesize", FALSE)
\* a final call whose result is not assigned to `response`
SynthesizeUnassigned == Phase("arx", "synthesize", "check", FALSE)
Synthesize == Phase("arx", "synthesize", "check", TRUE)

\* feedback asked only when another iteration follows
AsksFeedbackBeforeLast == loop = "arx" /\ human_in_loop /\ InRange(i + 1, max_depth)

\* `if human_in_loop:` at the end of the body of arx_loop's for loop; the other loops
\* have no such statement
AsksFeedback == loop = "arx" /\ human_in_loop

\* if "FINAL RESPONSE:" in response: break   (then, in arx_loop, if human_in_loop: ...)
CheckMarker ==
    /\ pc = "check"
    /\ IF IsFinal(response)
       THEN /\ pc' = "done"
            /\ UNCHANGED <<i, iterations>>
       ELSE IF AsksFeedback
       THEN /\ pc' = "feedback"
            /\ UNCHANGED <<i, iterations>>
       ELSE EnterIteration(i + 1)
    /\ UNCHANGED <<loop, max_depth, human_in_loop, tools, tool_names, response, outs,
                   prompts, cumulative_feedback, gen_calls, gen_failed, first_marker,
                   save_calls, raised_in>>

\* feedback = input(...); if feedback and feedback.strip(): cumulative_feedback += ...
ReadFeedback ==
    /\ pc = "feedback"
    /\ \E feedback \in Feedbacks :
        IF feedback # "" /\ Strip(feedback) # ""
        THEN /\ cumulative_feedback' = Append(cumulative_feedback,
                                               [iteration |-> i + 1, feedback |-> feedback])
             /\ pc' = "recritique"
             /\ UNCHANGED <<i, iterations>>
        ELSE /\ UNCHANGED cumulative_feedback
             /\ EnterIteration(i + 1)
    /\ UNCHANGED <<loop, max_depth, human_in_loop, tools, tool_names, response, outs,
                   prompts, gen_calls, gen_failed, first_marker, save_calls, raised_in>>

\* critique = self.critique(...) after non-empty feedback, then the next iteration
ReCritique ==
    /\ pc = "recritique"
    /\ \E o \in Outcomes, saved \in SaveOutcomes :
        /\ (~(o # "raise" /\ StoresInteraction("critique")) => saved = "ok")
        /\ gen_calls' = gen_calls + 1
        /\ prompts' = [prompts EXCEPT !["critique"] = PromptOf("critique")]
        /\ save_calls' = IF o # "raise" /\ StoresInteraction("critique")
                         THEN save_calls + 1 ELSE save_calls
        /\ IF o = "raise"
           THEN /\ pc' = "raised"
                /\ raised_in' = "generator"
                /\ gen_failed' = TRUE
                /\ UNCHANGED <<outs, i, iterations>>
           ELSE IF saved = "raise"
           THEN /\ pc' = "raised"
                /\ raised_in' = "memory"
                /\ UNCHANGED <<outs, i, iterations, gen_failed>>
           ELSE /\ outs' = [outs EXCEPT !["critique"] = GeneratorText(o = "marker", i + 1, "recritique",
                                                                       gen_calls + 1)]
                /\ EnterIteration(i + 1)
                /\ UNCHANGED <<raised_in, gen_failed>>
    /\ UNCHANGED <<loop, max_depth, human_in_loop, tools, tool_names, response,
                   cumulative_feedback, first_marker>>

\* a controller that has not been called
LoopNotCalled ==
    /\ loop = "base"
    /\ max_depth = 0
    /\ human_in_loop = FALSE
    /\ pc = "idle"
    /\ i = 0
    /\ tool_names = <<>>
    /\ response = EmptyText
    /\ outs = NoOuts
    /\ prompts = NoPrompts
    /\ cumulative_feedback = <<>>
    /\ iterations = 0
    /\ gen_calls = 0
    /\ gen_failed = FALSE
    /\ first_marker = 0
    /\ save_calls = 0
    /\ raised_in = "none"

LoopIdle == LoopNotCalled /\ tools = {}

\* a store nobody writes to
MemIdle ==
    /\ short_term_limit = 0
    /\ long_term_interval = 1
    /\ short_term_counter = 0
    /\ short_term_file = <<>>
    /\ long_term_file = <<>>
    /\ clock = 0
    /\ all_saved = <<>>
    /\ promoted_on = {}
    /\ mem_result = "none"
    /\ short_term_disk = "json"
    /\ long_term_disk = "json"
    /\ mem_op = "idle"
    /\ retrieved = <<>>
    /\ rebooted_at = 0
    /\ promo = NoPromotion

----------------------------------------------------------------------------
\* TextSplitter.split_text.

\* Python's seq[lo:hi] (0-based, negative indices counted from the end)
PySlice(seq, lo, hi) ==
    LET n == Len(seq)
        norm(x) == IF x < 0 THEN (IF x + n < 0 THEN 0 ELSE x + n) ELSE (IF x > n THEN n ELSE x)
    IN  SubSeq(seq, norm(lo) + 1, norm(hi))

\* TextChunk(text=" ".join(words[i:i + self.chunk_size]), metadata={"chunk_index": len(chunks)})
TextChunk(window, index) == [text |-> window, chunk_index |-> index]

\* words = text.split(); chunks = []; i = 0
SplitInit ==
    /\ chunk_size \in 1 .. MaxChunkSize
    /\ chunk_overlap \in 0 .. MaxChunkSize
    /\ words \in {[k \in 1 .. n |-> k] : n \in 0 .. MaxWords}
    /\ split_i = 0
    /\ chunks = <<>>
    /\ split_pc = "loop"

\* one pass through the body of `while i < len(words)`
SplitLoop ==
    /\ split_pc = "loop"
    /\ split_i < Len(words)
    /\ Len(chunks) < MaxChunks
    /\ chunks' = Append(chunks, TextChunk(PySlice(words, split_i, split_i + chunk_size),
                                          Len(chunks)))
    /\ split_i' = split_i + (chunk_size - chunk_overlap)
    /\ UNCHANGED <<chunk_size, chunk_overlap, words, split_pc>>

\* the while test fails: return chunks
SplitReturn ==
    /\ split_pc = "loop"
    /\ ~(split_i < Len(words))
    /\ split_pc' = "done"
    /\ UNCHANGED <<chunk_size, chunk_overlap, words, split_i, chunks>>

\* a splitter that is not running
SplitIdle ==
    /\ chunk_size = 1
    /\ chunk_overlap = 0
    /\ words = <<>>
    /\ split_i = 0
    /\ chunks = <<>>
    /\ split_pc = "idle"

----------------------------------------------------------------------------
\* SimpleVectorStore.

Texts == {"x", "y", "z"}

\* embedding_function(text).reshape(-1): a fixed-length vector per text
Embed(text) == IF text = "x" THEN <<1, 0>> ELSE IF text = "y" THEN <<0, 1>> ELSE <<1, 1>>

\* self.embeddings = None
None == [none |-> TRUE, shape |-> <<>>, rows |-> <<>>]

\* np.array(list of vectors): shape (n, d), or (0,) for the empty list
NpArray(vectors) ==
    IF vectors = <<>>
    THEN [none |-> FALSE, shape |-> <<0>>, rows |-> <<>>]
    ELSE [none |-> FALSE, shape |-> <<Len(vectors), Len(vectors[1])>>, rows |-> vectors]

\* np.atleast_2d, which np.vstack applies to each operand: (k,) becomes (1, k)
AtLeast2D(a) ==
    IF Len(a.shape) = 1
    THEN [none |-> FALSE, shape |-> <<1, a.shape[1]>>, rows |-> <<a.rows>>]
    ELSE a

\* np.vstack raises ValueError unless the operands agree on the second dimension
VStackRaises(a, b) == AtLeast2D(a).shape[2] # AtLeast2D(b).shape[2]

\* np.vstack((a, b))
VStack(a, b) ==
    [none |-> FALSE,
     shape |-> <<AtLeast2D(a).shape[1] + AtLeast2D(b).shape[1], AtLeast2D(a).shape[2]>>,
     rows |-> AtLeast2D(a).rows \o AtLeast2D(b).rows]

\* len(self.embeddings), 0 for None
NumEmbeddings(e) == IF e.none THEN 0 ELSE e.shape[1]

Dot(a, b) == a[1] * b[1] + a[2] * b[2]

\* cosine similarity dot(a,b) / (|a| |b|), kept as the integer 2 cos^2, which orders
\* the vectors of Embed (all non-negative, none zero) as the cosine does
Similarity(a, b) == (2 * Dot(a, b) * Dot(a, b)) \div (Dot(a, a) * Dot(b, b))

\* np.dot(self.embeddings, query_vec) raises ValueError unless the last dimension of
\* the array is the length of the query vector
DotRaises(e, query_vec) == e.shape[Len(e.shape)] # Len(query_vec)

\* np.argsort(similarities): the indices in ascending order of score; the order of
\* equal scores is whatever the sort does
ArgSorts(similarities) ==
    LET n == Len(similarities)
    IN  {p \in [1 .. n -> 1 .. n] :
            /\ \A a, b \in 1 .. n : a # b => p[a] # p[b]
            /\ \A a, b \in 1 .. n : a < b => similarities[p[a]] <= similarities[p[b]]}

\* seq[::-1]
Reverse(seq) == [k \in 1 .. Len(seq) |-> seq[Len(seq) + 1 - k]]

StoreInit ==
    /\ embeddings = None
    /\ store_chunks = <<>>
    /\ last_op = "none"
    /\ last_k = 0
    /\ last_query = "x"
    /\ store_result = "none"
    /\ results = <<>>
    /\ context = <<>>
    /\ added = 0

\* an add that replaces what the store holds
AddOutcomeReplacing(e, c, texts, embed_raises) ==
    IF embed_raises /\ texts # <<>>
    THEN [embeddings |-> e, chunks |-> c, result |-> "embed_raised"]
    ELSE [embeddings |-> NpArray([k \in 1 .. Len(texts) |-> Embed(texts[k])]),
          chunks |-> texts, result |-> "ok"]

\* SimpleVectorStore.add(texts, embedding_function) on a store with embeddings e and
\* chunks c: the store it leaves and how it ends
AddOutcome(e, c, texts, embed_raises) ==
    LET vectors == NpArray([k \in 1 .. Len(texts) |-> Embed(texts[k])])
    IN  IF embed_raises /\ texts # <<>>
        THEN \* the list comprehension raises before anything is stored
             [embeddings |-> e, chunks |-> c, result |-> "embed_raised"]
        ELSE IF e.none
        THEN [embeddings |-> vectors, chunks |-> c \o texts, result |-> "ok"]
        ELSE IF VStackRaises(e, vectors)
        THEN [embeddings |-> e, chunks |-> c, result |-> "raised"]
        ELSE [embeddings |-> VStack(e, vectors), chunks |-> c \o texts, result |-> "ok"]

\* SimpleVectorStore.search(query, embedding_function, k) on a store with embeddings e
\* and chunks c: every list it can return, with how the call ends
SearchOutcomes(e, c, query, k, embed_raises) ==
    IF e.none
    THEN {[results |-> <<>>, result |-> "ok"]}
    ELSE IF embed_raises
    THEN {[results |-> <<>>, result |-> "embed_raised"]}
    ELSE IF DotRaises(e, Embed(query))
    THEN {[results |-> <<>>, result |-> "raised"]}
    ELSE LET similarities == [r \in 1 .. Len(e.rows) |-> Similarity(e.rows[r], Embed(query))]
         IN  {[results |-> LET top_indices == Reverse(LastN(order, k))
                           IN  [r \in 1 .. Len(top_indices) |->
                                   [text |-> c[top_indices[r]],
                                    score |-> similarities[top_indices[r]],
                                    index |-> top_indices[r]]],
               result |-> "ok"] : order \in ArgSorts(similarities)}

\* the index stays within the bound of the model
RoomFor(texts) ==
    /\ NumEmbeddings(embeddings) + Len(texts) <= MaxStored
    /\ NumEmbeddings(embeddings) < MaxStored

\* SimpleVectorStore.add(texts, embedding_function)
add(texts, embed_raises) ==
    LET out == AddOutcome(embeddings, store_chunks, texts, embed_raises)
    IN  /\ RoomFor(texts)
        /\ last_op' = "add"
        /\ embeddings' = out.embeddings
        /\ store_chunks' = out.chunks
        /\ store_result' = out.result
        /\ added' = Len(out.chunks) - Len(store_chunks)
        /\ UNCHANGED <<last_k, last_query, results, context>>

Add ==
    \E texts \in UNION {[1 .. n -> Texts] : n \in 0 .. 2}, embed_raises \in BOOLEAN :
        add(texts, embed_raises)

\* SimpleVectorStore.search(query, embedding_function, k)
search(query, k, embed_raises) ==
    /\ last_op' = "search"
    /\ last_k' = k
    /\ last_query' = query
    /\ \E out \in SearchOutcomes(embeddings, store_chunks, query, k, embed_raises) :
           /\ results' = out.results
           /\ store_result' = out.result
    /\ added' = 0
    /\ UNCHANGED <<embeddings, store_chunks, context>>

Search ==
    \E query \in Texts, k \in 0 .. MaxK, embed_raises \in BOOLEAN :
        search(query, k, embed_raises)

\* RAG(chunk_size=1, chunk_overlap=0): a splitter that makes one chunk per word
RagChunkSize == 1
RagChunkOverlap == 0

\* " ".join(window); a one-word chunk is the word
JoinWords(window) == IF Len(window) = 1 THEN window[1] ELSE window

RECURSIVE SplitFrom(_, _)
\* TextSplitter.split_text(text) from position k on, as the chunk texts; doc is text.split()
SplitFrom(doc, k) ==
    IF k < Len(doc)
    THEN <<JoinWords(PySlice(doc, k, k + RagChunkSize))>>
             \o SplitFrom(doc, k + (RagChunkSize - RagChunkOverlap))
    ELSE <<>>

\* the documents a caller passes: texts of zero to two words
Docs == {<<>>, <<"x">>, <<"y", "x">>}

\* the argument `documents`: one str, or a list of zero to two str
Documents ==
    {[type |-> "str", value |-> d] : d \in Docs}
        \cup {[type |-> "list", value |-> ds] :
                  ds \in {<<>>} \cup {<<d>> : d \in Docs} \cup {<<d, <<"x">>>> : d \in Docs}}

\* the queries a caller passes
Queries == {"x"}

\* Which calls of the embedding function raise during one retrieve_context: none, the
\* first one (inside ingest_documents, or inside query when there is nothing to embed),
\* or only the one of the query.
EmbeddingFailures == {"none", "first", "query"}

\* if isinstance(documents, str): documents = [documents]
AsList(documents) == IF documents.type = "str" THEN <<documents.value>> ELSE documents.value

RECURSIVE DocumentChunks(_)
\* chunks = []; for doc in documents: chunks.extend(self.splitter.split_text(doc));
\* [chunk.text for chunk in chunks]
DocumentChunks(docs) ==
    IF docs = <<>> THEN <<>> ELSE SplitFrom(Head(docs), 0) \o DocumentChunks(Tail(docs))

\* "\n\n".join(pieces), as the sequence of the pieces and the separators between them
JoinBlank(pieces) ==
    [k \in 1 .. (IF pieces = <<>> THEN 0 ELSE 2 * Len(pieces) - 1) |->
        IF k % 2 = 1 THEN pieces[(k + 1) \div 2] ELSE "\n\n"]

\* RAG.ingest_documents(documents, embedding_function)
ingest_documents(documents, embed_raises) ==
    LET texts == DocumentChunks(AsList(documents))
        out == AddOutcome(embeddings, store_chunks, texts, embed_raises)
    IN  /\ RoomFor(texts)
        /\ last_op' = "ingest_documents"
        /\ embeddings' = out.embeddings
        /\ store_chunks' = out.chunks
        /\ store_result' = out.result
        /\ added' = Len(out.chunks) - Len(store_chunks)
        /\ UNCHANGED <<last_k, last_query, results, context>>

IngestDocuments ==
    \E documents \in Documents, embed_raises \in BOOLEAN :
        ingest_documents(documents, embed_raises)

\* RAG.query(query_text, embedding_function, top_k)
query(query_text, top_k, embed_raises) ==
    /\ last_op' = "query"
    /\ last_k' = top_k
    /\ last_query' = query_text
    /\ \E out \in SearchOutcomes(embeddings, store_chunks, query_text, top_k, embed_raises) :
           /\ results' = out.results
           /\ store_result' = out.result
    /\ added' = 0
    /\ UNCHANGED <<embeddings, store_chunks, context>>

Query ==
    \E query_text \in Queries, top_k \in 0 .. MaxK, embed_raises \in BOOLEAN :
        query(query_text, top_k, embed_raises)

\* a pipeline that searches the index before the documents are in it
retrieve_context_query_first(documents, query_text, top_k, failure) ==
    LET texts == DocumentChunks(AsList(documents))
        ingested == AddOutcome(embeddings, store_chunks, texts, failure = "first")
    IN  /\ RoomFor(texts)
        /\ last_op' = "retrieve_context"
        /\ last_k' = top_k
        /\ last_query' = query_text
        /\ embeddings' = ingested.embeddings
        /\ store_chunks' = ingested.chunks
        /\ added' = Len(ingested.chunks) - Len(store_chunks)
        /\ \E out \in SearchOutcomes(embeddings, store_chunks, query_text, top_k,
                                     failure # "none") :
               /\ results' = out.results
               /\ store_result' = out.result
               /\ context' = JoinBlank([r \in 1 .. Len(out.results) |-> out.results[r].text])

\* RAG.retrieve_context(documents, query_text, embedding_function, top_k)
retrieve_context(documents, query_text, top_k, failure) ==
    LET texts == DocumentChunks(AsList(documents))
        \* self.ingest_documents(documents, embedding_function)
        ingested == AddOutcome(embeddings, store_chunks, texts, failure = "first")
    IN  /\ RoomFor(texts)
        /\ last_op' = "retrieve_context"
        /\ last_k' = top_k
        /\ last_query' = query_text
        /\ embeddings' = ingested.embeddings
        /\ store_chunks' = ingested.chunks
        /\ added' = Len(ingested.chunks) - Len(store_chunks)
        /\ IF ingested.result # "ok"
           THEN /\ store_result' = ingested.result
                /\ results' = <<>>
                /\ context' = <<>>
           ELSE \* top_chunks = self.query(query_text, embedding_function, top_k=top_k)
                \E out \in SearchOutcomes(ingested.embeddings, ingested.chunks, query_text,
                                          top_k, failure # "none") :
                    /\ results' = out.results
                    /\ store_result' = out.result
                    \* return "\n\n".join([chunk["text"] for chunk in top_chunks])
                    /\ context' = JoinBlank([r \in 1 .. Len(out.results) |->
                                                out.results[r].text])

RetrieveContext ==
    \E documents \in Documents, query_text \in Queries, top_k \in {1, MaxK},
       failure \in EmbeddingFailures :
        retrieve_context(documents, query_text, top_k, failure)

\* top_k: int = 5 of retrieve_memory_context, which _prepare_prompts never overrides
MemoryTopK == 5

\* What long_term_memory.json holds when the context is retrieved: no Insight, one
\* Insight of no word (the extraction answer is stripped and saved as it is, so it may
\* be ""), one Insight of one word, or two Insights of one word each. The text of an
\* Insight is the sequence of its words.
InsightStores ==
    {<<>>,
     <<[insight |-> <<>>, timestamp |-> 0]>>,
     <<[insight |-> <<"x">>, timestamp |-> 0]>>,
     <<[insight |-> <<"y">>, timestamp |-> 0]>>,
     <<[insight |-> <<"y">>, timestamp |-> 0], [insight |-> <<"x">>, timestamp |-> 0]>>}

RECURSIVE JoinLines(_)
\* "\n".join(insights), as text.split() will see it: the words of all the lines
JoinLines(insights) ==
    IF insights = <<>> THEN <<>> ELSE Head(insights) \o JoinLines(Tail(insights))

\* Which call of the embedding function raises during one retrieve_memory_context: none,
\* the first one, one inside the second ingestion, or the one of the query.
ContextFailures == {"none", "first", "second", "query"}

\* self.rag.ingest_documents(document, self.embedding), then the ingest_documents call
\* that self.rag.retrieve_context(document, ...) starts with: the same texts once more,
\* unless the first call raised
IngestedTwice(e, c, texts, failure) ==
    LET first == AddOutcome(e, c, texts, failure = "first")
        second == AddOutcome(first.embeddings, first.chunks, texts, failure = "second")
    IN  IF first.result = "ok" THEN second ELSE first

\* TextGen.retrieve_memory_context(query, top_k)
retrieve_memory_context(query_text, top_k, failure) ==
    /\ last_op' = "retrieve_memory_context"
    /\ last_k' = top_k
    /\ last_query' = query_text
    /\ IF long_term_disk # "json"
       THEN \* insights = self.memory.retrieve_long_term() raises
            /\ store_result' = "read_raised"
            /\ results' = <<>>
            /\ context' = <<>>
            /\ added' = 0
            /\ UNCHANGED <<embeddings, store_chunks>>
       ELSE LET insights == [k \in 1 .. Len(long_term_file) |-> long_term_file[k].insight]
            IN  IF insights = <<>>
                THEN \* return ""
                     /\ store_result' = "ok"
                     /\ results' = <<>>
                     /\ context' = <<>>
                     /\ added' = 0
                     /\ UNCHANGED <<embeddings, store_chunks>>
                ELSE LET document == [type |-> "str", value |-> JoinLines(insights)]
                         texts == DocumentChunks(AsList(document))
                         ingested == IngestedTwice(embeddings, store_chunks, texts, failure)
                     IN  /\ RoomFor(texts \o texts)
                         /\ embeddings' = ingested.embeddings
                         /\ store_chunks' = ingested.chunks
                         /\ added' = Len(ingested.chunks) - Len(store_chunks)
                         /\ IF ingested.result # "ok"
                            THEN /\ store_result' = ingested.result
                                 /\ results' = <<>>
                                 /\ context' = <<>>
                            ELSE \E out \in SearchOutcomes(ingested.embeddings,
                                                           ingested.chunks, query_text,
                                                           top_k, failure # "none") :
                                     /\ results' = out.results
                                     /\ store_result' = out.result
                                     /\ context' = JoinBlank([r \in 1 .. Len(out.results) |->
                                                                 out.results[r].text])

RetrieveMemoryContext ==
    \E query_text \in Queries, failure \in ContextFailures :
        retrieve_memory_context(query_text, MemoryTopK, failure)

\* tool_top_k: int = 5 of chat_completion, unless the caller passes another
ToolTopK == 5

\* the tool outputs chat_completion summarises: those of more words than
\* max_tool_word_count (here 0)
LongToolOutputs == {<<"x">>, <<"y">>, <<"y", "x">>}

\* result_str = self.rag.retrieve_context(result_str, user_prompt, self.embedding,
\*                                        top_k=tool_top_k)
SummariseToolOutput ==
    \E result_str \in LongToolOutputs, user_prompt \in Queries, tool_top_k \in {1, ToolTopK},
       failure \in EmbeddingFailures :
        retrieve_context([type |-> "str", value |-> result_str], user_prompt, tool_top_k,
                         failure)

\* self.save_long_term(extracted_insight) at the end of a promotion, between two
\* completion calls: the stripped answer of the extraction call, of no word or of one
PromoteInsight == \E extracted_insight \in {<<>>, <<"x">>} : save_long_term(extracted_insight)

\* the Memory of a TextGen whose long-term file holds what earlier promotions left
RagMemInit ==
    /\ short_term_limit = 0
    /\ long_term_interval = 1
    /\ short_term_counter = 0
    /\ short_term_file = <<>>
    /\ long_term_file \in InsightStores
    /\ clock = 0
    /\ all_saved = <<>>
    /\ promoted_on = {}
    /\ mem_result = "none"
    /\ short_term_disk = "json"
    /\ long_term_disk = "json"
    /\ mem_op = "idle"
    /\ retrieved = <<>>
    /\ rebooted_at = 0
    /\ promo = NoPromotion

\* a store nobody uses
StoreIdle ==
    /\ embeddings = None
    /\ store_chunks = <<>>
    /\ last_op = "idle"
    /\ last_k = 0
    /\ last_query = "x"
    /\ store_result = "none"
    /\ results = <<>>
    /\ context = <<>>
    /\ added = 0

----------------------------------------------------------------------------
\* TextGen.chat_completion with tool_names.

\* The registry TextGen.__init__ builds from the Tools class (three of its entries), or
\* an empty one.
ChatRegistries == {{}, {"get_current_datetime", "get_codebase_snapshot", "web_crawl_url"}}

\* the names a caller, or the Generator through select_best_tools, can pass
ToolNames == {"get_current_datetime", "get_codebase_snapshot", "web_crawl_url", "no_such_tool"}

\* What self.tools[tool]() does, called without arguments:
\*   "str"    returns a short string          (get_current_datetime)
\*   "json"   returns a short non-string      (get_codebase_snapshot of a small project)
\*   "long"   returns more than max_tool_word_count words (get_codebase_snapshot)
\*   "raises" raises                          (web_crawl_url: missing argument url)
ToolBehaviours(tool) ==
    IF tool = "get_current_datetime" THEN {"str"}
    ELSE IF tool = "get_codebase_snapshot" THEN {"json", "long"}
    ELSE {"raises"}

\* a tool call whose exception is not caught
ToolCallEscapesOnRaise(behaviour) == behaviour = "raises"

\* try: result = self.tools[tool]()  except Exception: ...   catches what the tool raises
ToolCallEscapes(behaviour) == FALSE

\* the entry appended to tool_outputs for a registered tool
ToolOutput(tool, behaviour) ==
    [tool |-> tool,
     text |-> IF behaviour = "raises" THEN "Error executing tool"
              ELSE IF behaviour = "long" THEN "summary"
              ELSE IF behaviour = "json" THEN "json.dumps(result)"
              ELSE "result"]

\* the entry appended to tool_outputs for a name that is not in self.tools
ToolNotFound(tool) == [tool |-> tool, text |-> "not found."]

ChatInit ==
    /\ tools \in ChatRegistries
    /\ chat_tool_names \in UNION {[1 .. n -> ToolNames] : n \in 0 .. MaxToolNames}
    /\ store_interaction \in BOOLEAN
    /\ chat_pc = "initial"
    /\ tool_idx = 1
    /\ tool_outputs = <<>>
    /\ integrated_response = "none"
    /\ chat_log = <<>>
    /\ chat_raised_in = "none"

\* initial_response = self.oai.chat_completion(...); integrated_response = initial_response
InitialCall ==
    /\ chat_pc = "initial"
    /\ chat_log' = Append(chat_log, [call |-> "initial", tool |-> "", did |-> ""])
    /\ \E o \in {"ok", "raise"} :
        IF o = "raise"
        THEN /\ chat_pc' = "raised"
             /\ chat_raised_in' = "generator"
             /\ UNCHANGED integrated_response
        ELSE /\ integrated_response' = "initial"
             /\ chat_pc' = IF chat_tool_names # <<>> THEN "tools" ELSE "store"
             /\ UNCHANGED chat_raised_in
    /\ UNCHANGED <<chat_tool_names, store_interaction, tool_idx, tool_outputs, tools>>

\* one pass of `for tool in tool_names`
RunTool ==
    /\ chat_pc = "tools"
    /\ tool_idx <= Len(chat_tool_names)
    /\ LET tool == chat_tool_names[tool_idx]
       IN  IF tool \in tools
           THEN \E behaviour \in ToolBehaviours(tool), embedding \in {"ok", "raise"} :
                   LET called == Append(chat_log, [call |-> "tool", tool |-> tool,
                                                   did |-> behaviour])
                   IN  IF ToolCallEscapes(behaviour)
                       THEN /\ chat_log' = called
                            /\ chat_pc' = "raised"
                            /\ chat_raised_in' = "tool"
                            /\ UNCHANGED <<tool_idx, tool_outputs>>
                       ELSE IF behaviour = "long" /\ embedding = "raise"
                       THEN \* self.rag.retrieve_context(...) calls the embedding function
                            /\ chat_log' = called
                            /\ chat_pc' = "raised"
                            /\ chat_raised_in' = "embedding"
                            /\ UNCHANGED <<tool_idx, tool_outputs>>
                       ELSE /\ chat_log' = called
                            /\ tool_outputs' = Append(tool_outputs, ToolOutput(tool, behaviour))
                            /\ tool_idx' = tool_idx + 1
                            /\ UNCHANGED <<chat_pc, chat_raised_in>>
           ELSE /\ tool_outputs' = Append(tool_outputs, ToolNotFound(tool))
                /\ tool_idx' = tool_idx + 1
                /\ UNCHANGED <<chat_log, chat_pc, chat_raised_in>>
    /\ UNCHANGED <<chat_tool_names, store_interaction, integrated_response, tools>>

\* integrated_response = self.oai.chat_completion(user_prompt=integration_prompt, ...)
IntegrationCall ==
    /\ chat_pc = "tools"
    /\ tool_idx > Len(chat_tool_names)
    /\ chat_log' = Append(chat_log, [call |-> "integration", tool |-> "", did |-> ""])
    /\ \E o \in {"ok", "raise"} :
        IF o = "raise"
        THEN /\ chat_pc' = "raised"
             /\ chat_raised_in' = "generator"
             /\ UNCHANGED integrated_response
        ELSE /\ integrated_response' = "integrated"
             /\ chat_pc' = "store"
             /\ UNCHANGED chat_raised_in
    /\ UNCHANGED <<chat_tool_names, store_interaction, tool_idx, tool_outputs, tools>>

\* the text the Generator returned: the initial answer, or the answer of the integration
\* call, which is a different and here a longer text
ResponseText(r) == IF r = "integrated" THEN "aa" ELSE "a"

\* The store as chat_completion finds it. TextGen.__init__ builds Memory(short_term_limit),
\* so the interval is the constructor's default; earlier calls of the process have left
\* any counter below it and may have left an Interaction in the file.
ChatMemInit ==
    /\ short_term_limit \in Limits
    /\ long_term_interval = MaxInterval
    /\ short_term_counter \in 0 .. MaxInterval - 1
    /\ short_term_file \in {<<>>, <<OldEntry("", "a", 1, 1)>>}
    /\ long_term_file = <<>>
    /\ clock = 0
    /\ all_saved = <<>>
    /\ promoted_on = {}
    /\ mem_result = "none"
    /\ short_term_disk = "json"
    /\ long_term_disk = "json"
    /\ mem_op = "__init__"
    /\ retrieved = <<>>
    /\ rebooted_at = 0
    /\ promo = NoPromotion

\* a save made whether or not the caller asked for it
StoreAlways ==
    /\ chat_pc = "store"
    /\ chat_log' = Append(chat_log, [call |-> "save_short_term", tool |-> "",
                                     did |-> integrated_response])
    /\ \E u \in UserMessages, d \in Decisions : \E e \in ExtractionsAfter(d) :
           save_short_term(u, ResponseText(integrated_response), d, e)
    /\ chat_pc' = IF mem_result' = "raised" THEN "raised" ELSE "done"
    /\ chat_raised_in' = IF mem_result' = "raised" THEN "memory" ELSE chat_raised_in
    /\ UNCHANGED <<chat_tool_names, store_interaction, tool_idx, tool_outputs,
                   integrated_response, tools>>

\* a caller that goes on after a failed write
SaveRaisedInPromotion(result) == result = "raised"

\* self.memory.save_short_term(...) is not inside a try: whatever it raises, in a
\* Generator call of the promotion or in a write, leaves chat_completion
SaveRaised(result) == result \in {"raised", "write_raised"}

\* if store_interaction: self.memory.save_short_term(system_prompt, user_prompt,
\*                                                   integrated_response)
\* return integrated_response
StoreAndReturn ==
    /\ chat_pc = "store"
    /\ IF store_interaction
       THEN /\ chat_log' = Append(chat_log, [call |-> "save_short_term", tool |-> "",
                                             did |-> integrated_response])
            /\ \E u \in UserMessages :
                   \/ \E d \in Decisions : \E e \in ExtractionsAfter(d) :
                          save_short_term(u, ResponseText(integrated_response), d, e)
                   \/ \E failing \in WriteFailures, damaged \in BOOLEAN :
                          save_short_term_write_fails(u, ResponseText(integrated_response),
                                                      failing, damaged)
            /\ chat_pc' = IF SaveRaised(mem_result') THEN "raised" ELSE "done"
            /\ chat_raised_in' = IF SaveRaised(mem_result') THEN "memory" ELSE chat_raised_in
       ELSE /\ chat_pc' = "done"
            /\ UNCHANGED <<chat_log, chat_raised_in>>
            /\ UNCHANGED mem_vars
    /\ UNCHANGED <<chat_tool_names, store_interaction, tool_idx, tool_outputs,
                   integrated_response, tools>>

\* chat_completion is not running
ChatIdle ==
    /\ chat_pc = "idle"
    /\ chat_tool_names = <<>>
    /\ store_interaction = FALSE
    /\ tool_idx = 1
    /\ tool_outputs = <<>>
    /\ integrated_response = "none"
    /\ chat_log = <<>>
    /\ chat_raised_in = "none"

----------------------------------------------------------------------------
\* Two Memory instances over the same files: memory_dir is computed from the location
\* of memory.py, so every instance opens the same short_term_memory.json. A
\* save_short_term call is two steps for another instance: its read of the file and the
\* rest of it (append, eviction, write, counter, promotion).

Writers == {1, 2}

\* no second instance
SharedIdle ==
    /\ serialized = TRUE
    /\ writer_pc = [w \in Writers |-> "idle"]
    /\ writer_data = [w \in Writers |-> <<>>]
    /\ writer_counter = [w \in Writers |-> 0]

\* two instances constructed with the same arguments over a fresh store; the callers
\* either serialize their calls or do not
SharedInit ==
    /\ serialized \in BOOLEAN
    /\ writer_pc = [w \in Writers |-> "idle"]
    /\ writer_data = [w \in Writers |-> <<>>]
    /\ writer_counter = [w \in Writers |-> 0]

\* a read step that takes the file for empty
save_short_term_read_nothing(w) ==
    /\ writer_pc[w] = "idle"
    /\ writer_pc' = [writer_pc EXCEPT ![w] = "loaded"]
    /\ writer_data' = [writer_data EXCEPT ![w] = <<>>]
    /\ UNCHANGED <<serialized, writer_counter>>
    /\ UNCHANGED mem_vars

\* save_short_term of instance w, first step: short_term_data = json.load(f), or [] when
\* the file cannot be read
save_short_term_read(w) ==
    /\ writer_pc[w] = "idle"
    /\ writer_pc' = [writer_pc EXCEPT ![w] = "loaded"]
    /\ writer_data' = [writer_data EXCEPT ![w] = ReadOrEmpty(short_term_disk, short_term_file)]
    /\ UNCHANGED <<serialized, writer_counter>>
    /\ UNCHANGED mem_vars

\* save_short_term of instance w, the rest of the call: the new interaction is appended
\* to what the call read, the list is trimmed and written over the file, the counter
\* of the instance is incremented and the promotion runs when it is due
save_short_term_write(w, user_message, assistant_message, decision, extraction) ==
    LET entry == [system |-> "s", user |-> user_message,
                  assistant |-> assistant_message, timestamp |-> clock + 1]
        short_term_data == Trim(Append(writer_data[w], entry), short_term_limit)
        counter == writer_counter[w] + 1
        due == PromotionDue(counter, long_term_interval)
        returns == PromotionReturns(short_term_data, decision, extraction)
    IN  /\ writer_pc[w] = "loaded"
        /\ writer_pc' = [writer_pc EXCEPT ![w] = "idle"]
        /\ writer_data' = [writer_data EXCEPT ![w] = <<>>]
        /\ writer_counter' = [writer_counter EXCEPT ![w] = IF due /\ returns THEN 0 ELSE counter]
        /\ clock' = clock + 1
        /\ all_saved' = Append(all_saved, entry)
        /\ short_term_file' = short_term_data
        /\ short_term_disk' = "json"
        /\ promoted_on' = IF due THEN promoted_on \cup {clock + 1} ELSE promoted_on
        /\ long_term_file' = IF due
                             THEN PromotionLongTerm(short_term_data, decision, extraction)
                             ELSE long_term_file
        /\ promo' = IF due THEN PromotionRecord(short_term_data, decision) ELSE NoPromotion
        /\ mem_result' = IF due /\ ~returns THEN "raised" ELSE "ok"
        /\ mem_op' = "save_short_term"
        /\ retrieved' = <<>>
        /\ UNCHANGED <<short_term_limit, long_term_interval, short_term_counter,
                       long_term_disk, rebooted_at, serialized>>

\* the number of calls in progress
InProgress == Cardinality({w \in Writers : writer_pc[w] = "loaded"})

\* a caller enters save_short_term; callers that serialize wait for the call in
\* progress to return
SharedRead ==
    /\ clock + InProgress < MaxSaves
    /\ serialized => InProgress = 0
    /\ \E w \in Writers : save_short_term_read(w)

\* the callers are TextGen completions storing a response (ResponseText)
SharedWrite ==
    \E w \in Writers, u \in UserMessages, d \in Decisions : \E e \in ExtractionsAfter(d) :
        save_short_term_write(w, u, ResponseText("initial"), d, e)

----------------------------------------------------------------------------
\* The specifications.

Init == MemInit /\ LoopIdle /\ SplitIdle /\ StoreIdle /\ ChatIdle /\ SharedIdle

Next ==
    \/ SaveShortTerm /\ UNCHANGED <<loop_vars, split_vars, store_vars, chat_vars, shared_vars>>
    \/ reboot_memory /\ UNCHANGED <<loop_vars, split_vars, store_vars, chat_vars, shared_vars>>
    \/ RetrieveShortTerm /\ UNCHANGED <<loop_vars, split_vars, store_vars, chat_vars, shared_vars>>
    \/ retrieve_long_term /\ UNCHANGED <<loop_vars, split_vars, store_vars, chat_vars, shared_vars>>

Spec == Init /\ [][Next]_vars

\* the store under saves and reboots alone
SaveSpecNext ==
    \/ SaveShortTerm /\ UNCHANGED <<loop_vars, split_vars, store_vars, chat_vars, shared_vars>>
    \/ reboot_memory /\ UNCHANGED <<loop_vars, split_vars, store_vars, chat_vars, shared_vars>>

SaveSpec == Init /\ [][SaveSpecNext]_vars

SharedSpecInit == MemInit /\ SharedInit /\ LoopIdle /\ SplitIdle /\ StoreIdle /\ ChatIdle

SharedSpecNext ==
    \/ SharedRead /\ UNCHANGED <<loop_vars, split_vars, store_vars, chat_vars>>
    \/ SharedWrite /\ UNCHANGED <<loop_vars, split_vars, store_vars, chat_vars>>

SharedSpec == SharedSpecInit /\ [][SharedSpecNext]_vars

ReadSpecInit == ReadInit /\ LoopIdle /\ SplitIdle /\ StoreIdle /\ ChatIdle /\ SharedIdle

ReadSpecNext ==
    \/ RetrieveShortTerm /\ UNCHANGED <<loop_vars, split_vars, store_vars, chat_vars, shared_vars>>
    \/ retrieve_long_term /\ UNCHANGED <<loop_vars, split_vars, store_vars, chat_vars, shared_vars>>
    \/ SaveLongTerm /\ UNCHANGED <<loop_vars, split_vars, store_vars, chat_vars, shared_vars>>
    \/ SaveOverExisting /\ UNCHANGED <<loop_vars, split_vars, store_vars, chat_vars, shared_vars>>
    \/ reboot_memory /\ UNCHANGED <<loop_vars, split_vars, store_vars, chat_vars, shared_vars>>
    \/ FileLost /\ UNCHANGED <<loop_vars, split_vars, store_vars, chat_vars, shared_vars>>

ReadSpec == ReadSpecInit /\ [][ReadSpecNext]_vars

LoopSpecInit == LoopInit /\ MemIdle /\ SplitIdle /\ StoreIdle /\ ChatIdle /\ SharedIdle

LoopSpecNext ==
    \/ LoopStart /\ UNCHANGED <<mem_vars, split_vars, store_vars, chat_vars, shared_vars>>
    \/ select_best_tools /\ UNCHANGED <<mem_vars, split_vars, store_vars, chat_vars, shared_vars>>
    \/ BaseChat /\ UNCHANGED <<mem_vars, split_vars, store_vars, chat_vars, shared_vars>>
    \/ Observe /\ UNCHANGED <<mem_vars, split_vars, store_vars, chat_vars, shared_vars>>
    \/ Reflect /\ UNCHANGED <<mem_vars, split_vars, store_vars, chat_vars, shared_vars>>
    \/ Act /\ UNCHANGED <<mem_vars, split_vars, store_vars, chat_vars, shared_vars>>
    \/ Plan /\ UNCHANGED <<mem_vars, split_vars, store_vars, chat_vars, shared_vars>>
    \/ Predict /\ UNCHANGED <<mem_vars, split_vars, store_vars, chat_vars, shared_vars>>
    \/ Draft /\ UNCHANGED <<mem_vars, split_vars, store_vars, chat_vars, shared_vars>>
    \/ Critique /\ UNCHANGED <<mem_vars, split_vars, store_vars, chat_vars, shared_vars>>
    \/ Create /\ UNCHANGED <<mem_vars, split_vars, store_vars, chat_vars, shared_vars>>
    \/ Synthesize /\ UNCHANGED <<mem_vars, split_vars, store_vars, chat_vars, shared_vars>>
    \/ CheckMarker /\ UNCHANGED <<mem_vars, split_vars, store_vars, chat_vars, shared_vars>>
    \/ ReadFeedback /\ UNCHANGED <<mem_vars, split_vars, store_vars, chat_vars, shared_vars>>
    \/ ReCritique /\ UNCHANGED <<mem_vars, split_vars, store_vars, chat_vars, shared_vars>>

LoopSpec == LoopSpecInit /\ [][LoopSpecNext]_vars

SplitSpecInit == SplitInit /\ MemIdle /\ LoopIdle /\ StoreIdle /\ ChatIdle /\ SharedIdle

SplitSpecNext ==
    \/ SplitLoop /\ UNCHANGED <<mem_vars, loop_vars, store_vars, chat_vars, shared_vars>>
    \/ SplitReturn /\ UNCHANGED <<mem_vars, loop_vars, store_vars, chat_vars, shared_vars>>

SplitSpec == SplitSpecInit /\ [][SplitSpecNext]_vars

StoreSpecInit == StoreInit /\ MemIdle /\ LoopIdle /\ SplitIdle /\ ChatIdle /\ SharedIdle

StoreSpecNext ==
    \/ Add /\ UNCHANGED <<mem_vars, loop_vars, split_vars, chat_vars, shared_vars>>
    \/ Search /\ UNCHANGED <<mem_vars, loop_vars, split_vars, chat_vars, shared_vars>>

StoreSpec == StoreSpecInit /\ [][StoreSpecNext]_vars

----------------------------------------------------------------------------

RagSpecInit == StoreInit /\ MemIdle /\ LoopIdle /\ SplitIdle /\ ChatIdle /\ SharedIdle

RagSpecNext ==
    \/ IngestDocuments /\ UNCHANGED <<mem_vars, loop_vars, split_vars, chat_vars, shared_vars>>
    \/ Query /\ UNCHANGED <<mem_vars, loop_vars, split_vars, chat_vars, shared_vars>>
    \/ RetrieveContext /\ UNCHANGED <<mem_vars, loop_vars, split_vars, chat_vars, shared_vars>>

RagSpec == RagSpecInit /\ [][RagSpecNext]_vars

----------------------------------------------------------------------------
\* The index of one TextGen instance, as its completion calls use it: the memory lookup
\* of _prepare_prompts and the summary of a long tool output.

ContextSpecInit == StoreInit /\ RagMemInit /\ LoopIdle /\ SplitIdle /\ ChatIdle /\ SharedIdle

ContextSpecNext ==
    \/ RetrieveMemoryContext
           /\ UNCHANGED <<mem_vars, loop_vars, split_vars, chat_vars, shared_vars>>
    \/ SummariseToolOutput
           /\ UNCHANGED <<mem_vars, loop_vars, split_vars, chat_vars, shared_vars>>
    \/ PromoteInsight
           /\ UNCHANGED <<loop_vars, split_vars, store_vars, chat_vars, shared_vars>>

ContextSpec == ContextSpecInit /\ [][ContextSpecNext]_vars

----------------------------------------------------------------------------

ChatSpecInit == ChatInit /\ LoopNotCalled /\ ChatMemInit /\ SplitIdle /\ StoreIdle /\ SharedIdle

ChatSpecNext ==
    \/ InitialCall /\ UNCHANGED <<mem_vars, split_vars, store_vars, shared_vars>>
                   /\ UNCHANGED <<loop, max_depth, human_in_loop, pc, i, tool_names, response,
                                  outs, prompts, cumulative_feedback, iterations, gen_calls,
                                  gen_failed, first_marker, save_calls, raised_in>>
    \/ RunTool /\ UNCHANGED <<mem_vars, split_vars, store_vars, shared_vars>>
               /\ UNCHANGED <<loop, max_depth, human_in_loop, pc, i, tool_names, response,
                              outs, prompts, cumulative_feedback, iterations, gen_calls,
                              gen_failed, first_marker, save_calls, raised_in>>
    \/ IntegrationCall /\ UNCHANGED <<mem_vars, split_vars, store_vars, shared_vars>>
                       /\ UNCHANGED <<loop, max_depth, human_in_loop, pc, i, tool_names,
                                      response, outs, prompts, cumulative_feedback, iterations,
                                      gen_calls, gen_failed, first_marker, save_calls, raised_in>>
    \/ StoreAndReturn /\ UNCHANGED <<split_vars, store_vars, shared_vars>>
                      /\ UNCHANGED <<loop, max_depth, human_in_loop, pc, i, tool_names,
                                     response, outs, prompts, cumulative_feedback, iterations,
                                     gen_calls, gen_failed, first_marker, save_calls, raised_in>>

ChatSpec == ChatSpecInit /\ [][ChatSpecNext]_vars

----------------------------------------------------------------------------
\* Claims about the Memory store (checked under Spec).

\* s is a contiguous suffix of t
IsSuffix(s, t) ==
    /\ Len(s) <= Len(t)
    /\ \A k \in 1 .. Len(s) : s[k] = t[Len(t) - Len(s) + k]

\* C1: after every save_short_term call, for any short_term_limit, the persisted
\* short-term entries have total len(user)+len(assistant) <= short_term_limit and are
\* a contiguous suffix, in call order, of all interactions saved so far.
C1_BoundedSuffix ==
    clock > 0 =>
        /\ TotalTokens(short_term_file) <= short_term_limit
        /\ IsSuffix(short_term_file, all_saved)

\* The same statement for the limits >= 0 only (what the code does guarantee).
C1_BoundedSuffixNonNegativeLimit ==
    (clock > 0 /\ short_term_limit >= 0) =>
        /\ TotalTokens(short_term_file) <= short_term_limit
        /\ IsSuffix(short_term_file, all_saved)

\* C2: with N = long_term_interval (N >= 1, where "the N-th call" means something),
\* store_long_term_memory is invoked on exactly the calls N, 2N, 3N, ... and on no
\* other call, and the counter is 0 after a call that invoked it.
C2_PromotionExactlyEveryNth ==
    long_term_interval >= 1 =>
        /\ promoted_on = {k \in 1 .. clock : k % long_term_interval = 0}
        /\ (clock \in promoted_on => short_term_counter = 0)

\* the last n elements of seq
Suffix(seq, n) == SubSeq(seq, Len(seq) - n + 1, Len(seq))

\* the longest suffix of seq whose total size is within limit (none fits a negative one)
LongestFittingSuffix(seq, limit) ==
    LET fits == {n \in 0 .. Len(seq) : TotalTokens(Suffix(seq, n)) <= limit}
    IN  IF fits = {} THEN <<>> ELSE Suffix(seq, CHOOSE n \in fits : \A m \in fits : m <= n)

\* the interactions saved since the store was last empty (construction or reboot)
SinceReboot == SubSeq(all_saved, rebooted_at + 1, clock)

\* the system/user/assistant content of a sequence of entries
Contents(seq) ==
    [k \in 1 .. Len(seq) |->
        [system |-> seq[k].system, user |-> seq[k].user, assistant |-> seq[k].assistant]]

\* C13: retrieve_short_term returns, in chronological order, the longest suffix of the
\* persisted short-term sequence whose total len(user)+len(assistant) is within
\* short_term_limit: it stops at the first entry, going from newest to oldest, that
\* would overflow, and never skips it to include an older one.
C13_LongestFittingSuffix ==
    mem_op = "retrieve_short_term" =>
        /\ mem_result = "ok"
        /\ retrieved = LongestFittingSuffix(ReadOrEmpty(short_term_disk, short_term_file),
                                            short_term_limit)

\* the newest entry did not fit, an older one alone would have, and nothing was returned
C13_Witness ==
    /\ mem_op = "retrieve_short_term"
    /\ Len(short_term_file) >= 2
    /\ retrieved = <<>>
    /\ \E k \in 1 .. Len(short_term_file) - 1 :
           EntryTokens(short_term_file[k]) <= short_term_limit

\* C14 as stated, for the configurations with short_term_limit >= 1 and
\* long_term_interval >= 1: after writing N interactions to an empty store,
\* retrieve_short_term returns the same N interactions (system, user, assistant) in the
\* same order.
C14_RoundTrip ==
    (mem_op = "retrieve_short_term" /\ short_term_limit >= 1 /\ long_term_interval >= 1) =>
        Contents(retrieved) = Contents(SinceReboot)

\* C14 amended: what is read back is the longest suffix of the N interactions whose
\* total size is within short_term_limit, unchanged and in order; it is all N of them
\* when their total size is within short_term_limit, and fewer than N otherwise.
C14_RoundTripWithinLimit ==
    mem_op = "retrieve_short_term" =>
        /\ retrieved = LongestFittingSuffix(SinceReboot, short_term_limit)
        /\ TotalTokens(SinceReboot) <= short_term_limit => retrieved = SinceReboot
        /\ (TotalTokens(SinceReboot) > short_term_limit /\ SinceReboot # <<>>) =>
               Len(retrieved) < Len(SinceReboot)

\* some of the written interactions are read back, and some were evicted
C14_Witness ==
    /\ mem_op = "retrieve_short_term"
    /\ Len(retrieved) >= 1
    /\ Len(retrieved) < Len(SinceReboot)

\* two or more written interactions are all read back
C14_WitnessAll ==
    /\ mem_op = "retrieve_short_term"
    /\ Len(retrieved) >= 2
    /\ retrieved = SinceReboot

----------------------------------------------------------------------------
\* Claims about the read paths of the Memory store (checked under ReadSpec).

\* C15: on every read path (retrieve_short_term, retrieve_long_term, the read inside
\* save_long_term) a missing or corrupt backing file yields an empty collection and no
\* exception reaches the caller.
C15_UnreadableStoreReadsEmpty ==
    /\ (mem_op = "retrieve_short_term" /\ short_term_disk # "json") =>
           (mem_result = "ok" /\ retrieved = <<>>)
    /\ (mem_op = "retrieve_long_term" /\ long_term_disk # "json") =>
           (mem_result = "ok" /\ retrieved = <<>>)
    /\ mem_op = "save_long_term" => mem_result = "ok"

\* The same statement for the short-term file only: retrieve_short_term reads an
\* unreadable file as [], and save_short_term writes a readable file whatever it found.
C15_ShortTermReadsEmpty ==
    /\ (mem_op = "retrieve_short_term" /\ short_term_disk # "json") =>
           (mem_result = "ok" /\ retrieved = <<>>)
    /\ mem_op = "save_short_term" => short_term_disk = "json"

----------------------------------------------------------------------------
\* Claims about promotion (checked under Spec).

\* C16: when a Generator call of the promotion raised, or the decision call returned a
\* malformed answer, the persisted short-term sequence after that save_short_term is
\* what it is after any save: the new interaction appended and the oldest entries
\* evicted until the rest fits, nothing else lost or altered.
C16_FailedPromotionKeepsShortTerm ==
    (mem_op = "save_short_term" /\ promo.invoked
        /\ (mem_result = "raised" \/ promo.decision = "maybe")) =>
        /\ short_term_disk = "json"
        /\ short_term_file = LongestFittingSuffix(SinceReboot, short_term_limit)

\* a promotion raised after a save that appended the new interaction to older ones
C16_Witness ==
    /\ mem_op = "save_short_term"
    /\ promo.invoked
    /\ mem_result = "raised"
    /\ Len(short_term_file) >= 2
    /\ short_term_file[Len(short_term_file)] = all_saved[clock]

\* a malformed decision after a save that evicted an older interaction
C16_WitnessMalformed ==
    /\ mem_op = "save_short_term"
    /\ promo.decision = "maybe"
    /\ Len(short_term_file) >= 1
    /\ Len(short_term_file) < Len(SinceReboot)

\* C17 (for the configurations with short_term_limit >= 1 and long_term_interval >= 1):
\* a promotion whose decision call answers "yes" appends exactly one Insight; for
\* every other decision value it makes no second Generator call and leaves the
\* long-term sequence unchanged; no promotion appends more than one Insight.
C17_PromotionAppendsOneOnYes ==
    [][(mem_op' = "save_short_term" /\ promo'.invoked
          /\ short_term_limit >= 1 /\ long_term_interval >= 1) =>
          /\ promo'.decision = "yes" =>
                 /\ Len(long_term_file') = Len(long_term_file) + 1
                 /\ SubSeq(long_term_file', 1, Len(long_term_file)) = long_term_file
          /\ promo'.decision # "yes" =>
                 /\ promo'.gen_calls <= 1
                 /\ long_term_file' = long_term_file
          /\ Len(long_term_file') <= Len(long_term_file) + 1]_vars

\* The same statement with "exactly one Insight" only for the promotions that return.
C17_WhenPromotionReturns ==
    [][(mem_op' = "save_short_term" /\ promo'.invoked) =>
          /\ (promo'.decision = "yes" /\ mem_result' = "ok") =>
                 /\ Len(long_term_file') = Len(long_term_file) + 1
                 /\ SubSeq(long_term_file', 1, Len(long_term_file)) = long_term_file
          /\ promo'.decision = "yes" => promo'.gen_calls = 2
          /\ promo'.decision # "yes" =>
                 /\ promo'.gen_calls <= 1
                 /\ long_term_file' = long_term_file
          /\ Len(long_term_file') <= Len(long_term_file) + 1]_vars

----------------------------------------------------------------------------
\* Claims about the loop controller (checked under LoopSpec).

C4_BoundedIterations ==
    /\ pc \in BodyPcs => (0 <= i /\ i < max_depth)
    /\ iterations <= max_depth
    /\ (pc = "done" /\ first_marker = 0) =>
           /\ iterations = max_depth
           /\ response.iter = max_depth
           /\ ~response.marker
    /\ (max_depth = 0 /\ pc # "call") =>
           /\ pc = "done"
           /\ response = EmptyText
           /\ gen_calls = 0

\* C4's case: the marker never came and the loop returned after max_depth >= 2 iterations.
C4_Witness ==
    /\ pc = "done"
    /\ first_marker = 0
    /\ max_depth >= 2
    /\ iterations = max_depth
    /\ gen_calls >= max_depth

\* C5: provided every Generator call and feedback read returns, a loop leaves its
\* iteration only because the marker was found or max_depth iterations were completed:
\* no exception raised by the controller itself ends it.
C5_OnlyMarkerOrDepthEndsLoop ==
    ~gen_failed => pc # "raised"

\* C6: the tool-selection step never aborts the loop, whether the registry is empty
\* or not: select_best_tools yields a list and the iteration proceeds.
C6_ToolSelectionNeverAborts ==
    raised_in # "select_best_tools"

\* With an empty registry the loop does proceed with no tools.
C6_EmptyRegistryProceeds ==
    (tools = {} /\ pc \in AllPhases) => tool_names = <<>>

----------------------------------------------------------------------------
\* Claims about the retrieval service (checked under SplitSpec and StoreSpec).

\* the texts of the chunks, in emission order
ChunkTexts == [k \in 1 .. Len(chunks) |-> chunks[k].text]

\* C7: split_text stops once a window reaches the last word, so "w1 w2 w3 w4 w5" with
\* chunk_size = 3 and chunk_overlap = 1 yields exactly ["w1 w2 w3", "w3 w4 w5"].
C7_FiveWordsTwoChunks ==
    (split_pc = "done" /\ words = <<1, 2, 3, 4, 5>> /\ chunk_size = 3 /\ chunk_overlap = 1)
        => ChunkTexts = << <<1, 2, 3>>, <<3, 4, 5>> >>

\* What the code does: a window starts at every multiple of the step below len(words).
C7_WindowAtEveryStep ==
    (split_pc = "done" /\ chunk_overlap < chunk_size) =>
        /\ \A k \in 1 .. Len(chunks) :
               /\ (k - 1) * (chunk_size - chunk_overlap) < Len(words)
               /\ chunks[k].text = PySlice(words, (k - 1) * (chunk_size - chunk_overlap),
                                           (k - 1) * (chunk_size - chunk_overlap) + chunk_size)
        /\ Len(chunks) * (chunk_size - chunk_overlap) >= Len(words)

\* C8: split_text terminates for every text and configuration; a configuration with
\* chunk_overlap >= chunk_size is rejected with an error, so its loop (whose index
\* would not advance) never emits a window.
C8_InvalidConfigurationRejected ==
    chunk_overlap >= chunk_size => chunks = <<>>

\* What the code does with such a configuration and a non-empty text: it never returns.
C8_InvalidConfigurationNeverReturns ==
    (chunk_overlap >= chunk_size /\ words # <<>>) => (split_pc # "done" /\ split_i <= 0)

\* C9: in every reachable state of a SimpleVectorStore the number of stored embeddings
\* equals the number of stored chunk texts, and the i-th embedding is the embedding of
\* the i-th chunk text.
C9_EmbeddingsMatchChunks ==
    /\ NumEmbeddings(embeddings) = Len(store_chunks)
    /\ \A r \in 1 .. Len(store_chunks) : embeddings.rows[r] = Embed(store_chunks[r])

\* The same statement for the stores that never received an empty text list twice.
C9_MatchWhenTwoDimensional ==
    (embeddings.none \/ Len(embeddings.shape) = 1 \/ embeddings.shape[2] > 0) =>
        /\ NumEmbeddings(embeddings) = Len(store_chunks)
        /\ \A r \in 1 .. Len(store_chunks) : embeddings.rows[r] = Embed(store_chunks[r])

Min(a, b) == IF a < b THEN a ELSE b

\* the result of the last search is ranked and scored as search promises
Ranked ==
    /\ \A r \in 1 .. Len(results) - 1 : results[r].score >= results[r + 1].score
    /\ \A r \in 1 .. Len(results) :
           results[r].score = Similarity(Embed(results[r].text), Embed(last_query))

\* C10: for an index of n >= 1 embeddings and every k >= 0, search returns exactly
\* min(k, n) results, never more than k, in descending order of score, each score
\* being the score of the returned text.
C10_SearchReturnsMinKN ==
    (last_op = "search" /\ store_result = "ok" /\ Len(store_chunks) >= 1) =>
        /\ Len(results) = Min(last_k, Len(store_chunks))
        /\ Len(results) <= last_k
        /\ Ranked

\* The same statement for k >= 1.
C10_SearchReturnsMinKNPositiveK ==
    (last_op = "search" /\ store_result = "ok" /\ Len(store_chunks) >= 1 /\ last_k >= 1) =>
        /\ Len(results) = Min(last_k, Len(store_chunks))
        /\ Len(results) <= last_k
        /\ Ranked

\* C11: whenever the index holds zero vectors (a fresh store, or one that add was only
\* called on with no texts, as ingest_documents does for an empty document), search
\* returns the empty list and does not raise.
C11_EmptyIndexSearchReturnsEmpty ==
    (last_op = "search" /\ NumEmbeddings(embeddings) = 0 /\ store_result # "embed_raised") =>
        (store_result = "ok" /\ results = <<>>)

\* The same statement for the store that add was never called on.
C11_FreshStoreSearchReturnsEmpty ==
    (last_op = "search" /\ embeddings.none) => (store_result = "ok" /\ results = <<>>)

\* C12: of two returned chunks with equal similarity to the query, the one added later
\* (the higher insertion index) is ranked first.
C12_TiesMostRecentFirst ==
    (last_op = "search" /\ store_result = "ok") =>
        \A r, s \in 1 .. Len(results) :
            (r < s /\ results[r].score = results[s].score) =>
                results[r].index > results[s].index

\* What the code does guarantee about ties: both tied chunks keep their own scores and
\* no chunk is returned twice.
C12_NoChunkReturnedTwice ==
    (last_op = "search" /\ store_result = "ok") =>
        \A r, s \in 1 .. Len(results) : r # s => results[r].index # results[s].index

----------------------------------------------------------------------------
\* Claims about Generator failures and phase order in the loops (checked under LoopSpec).

\* C18: a Generator call that raises inside a phase of base_loop, react_loop or arx_loop
\* is caught at the call site: the loop goes on and returns a text, and no exception
\* of a Generator call reaches the caller of the loop.
C18_GeneratorFailureCaught ==
    gen_failed => (pc # "raised" /\ raised_in # "generator")

C20_WitnessContinues ==
    /\ loop = "react"
    /\ pc = "observe"
    /\ i = 2
    /\ outs["observe"].marker
    /\ outs["reflect"].marker
    /\ outs["observe"].iter = 2

----------------------------------------------------------------------------
\* Claims about chat_completion with tool_names (checked under ChatSpec).

\* the tool calls made so far, in order
ToolCalls == SelectSeq(chat_log, LAMBDA e : e.call = "tool")

\* how many calls of one kind were made so far
CountCalls(kind) == Len(SelectSeq(chat_log, LAMBDA e : e.call = kind))

\* the registered names among the first n of tool_names
RegisteredUpTo(n) == SelectSeq(SubSeq(chat_tool_names, 1, n), LAMBDA t : t \in tools)

\* C19: in chat_completion with tool_names, a tool whose call raises contributes the
\* text "Error executing tool ..." and an unregistered name contributes "Tool ... not
\* found."; neither ends the call: the remaining tools are executed, each registered
\* name once and in order (no retry), the integration call is made exactly once, and a
\* response is returned. Only a failing Generator, embedding or memory call ends
\* chat_completion with an exception.
C19_ToolFailuresDoNotAbort ==
    chat_tool_names # <<>> =>
        /\ chat_raised_in # "tool"
        /\ chat_pc = "raised" => chat_raised_in \in {"generator", "embedding", "memory"}
        /\ LET made == [k \in 1 .. Len(ToolCalls) |-> ToolCalls[k].tool]
           IN  IF chat_raised_in = "embedding"
               THEN made = RegisteredUpTo(tool_idx)
               ELSE made = RegisteredUpTo(tool_idx - 1)
        /\ Len(tool_outputs) = tool_idx - 1
        /\ \A k \in 1 .. Len(tool_outputs) :
               /\ tool_outputs[k].tool = chat_tool_names[k]
               /\ (chat_tool_names[k] \notin tools) = (tool_outputs[k].text = "not found.")
               /\ chat_tool_names[k] \in tools =>
                      (ToolCalls[Len(RegisteredUpTo(k))].did = "raises")
                          = (tool_outputs[k].text = "Error executing tool")
        /\ CountCalls("integration") <= 1
        /\ chat_pc \in {"store", "done"} =>
               /\ tool_idx = Len(chat_tool_names) + 1
               /\ CountCalls("integration") = 1
               /\ integrated_response = "integrated"
        /\ chat_pc \in {"initial", "tools", "store"} => ENABLED ChatSpecNext

\* a call that returned after a raising tool, an unregistered name and a third tool
C19_Witness ==
    /\ chat_pc = "done"
    /\ chat_tool_names = <<"web_crawl_url", "no_such_tool", "get_current_datetime">>
    /\ [k \in 1 .. Len(tool_outputs) |-> tool_outputs[k].text]
           = <<"Error executing tool", "not found.", "result">>
    /\ integrated_response = "integrated"

----------------------------------------------------------------------------
\* Claims about arx_loop (checked under LoopSpec).

\* the phases of arx_loop that have run in the current iteration when the controller
\* is at position p
ArxDoneAt(p) ==
    IF p = "predict" THEN {"plan"}
    ELSE IF p = "draft" THEN {"plan", "predict"}
    ELSE IF p = "critique" THEN {"plan", "predict", "draft"}
    ELSE IF p = "create" THEN {"plan", "predict", "draft", "critique"}
    ELSE IF p = "synthesize" THEN {"plan", "predict", "draft", "critique", "create"}
    ELSE IF p = "check" THEN {"plan", "predict", "draft", "critique", "create", "synthesize"}
    ELSE {}

IsPrefix(s, t) == Len(s) <= Len(t) /\ SubSeq(t, 1, Len(s)) = s

\* where arx_loop stands with its feedback: it is read only with human_in_loop and after
\* a Synthesize output without the marker, holds no blank line, one line per iteration at
\* most, and the Critique of the current iteration was given all of it
FeedbackState ==
    /\ pc \in {"feedback", "recritique"} =>
           /\ human_in_loop
           /\ response = outs["synthesize"]
           /\ response.iter = i + 1
           /\ ~response.marker
    /\ ~human_in_loop => cumulative_feedback = <<>>
    /\ iterations = 0 => cumulative_feedback = <<>>
    /\ \A k \in 1 .. Len(cumulative_feedback) :
           /\ cumulative_feedback[k].feedback # ""
           /\ cumulative_feedback[k].feedback # " "
           /\ cumulative_feedback[k].iteration <= iterations
           /\ k > 1 => cumulative_feedback[k - 1].iteration < cumulative_feedback[k].iteration
    /\ pc = "recritique" =>
           /\ cumulative_feedback # <<>>
           /\ cumulative_feedback[Len(cumulative_feedback)].iteration = i + 1
    /\ "critique" \in ArxDoneAt(pc) => prompts["critique"].feedback = cumulative_feedback

C22_WitnessBlank ==
    /\ loop = "arx"
    /\ human_in_loop
    /\ pc = "select"
    /\ i = 1
    /\ cumulative_feedback = <<>>
    /\ gen_calls = 6

----------------------------------------------------------------------------
\* Claims about what chat_completion stores (checked under ChatSpec).

\* the saves chat_completion has made: none before its last step and none without
\* store_interaction, one afterwards, of the response it returns
SavedWhenReturned ==
    LET saves == CountCalls("save_short_term")
        saved == chat_pc = "done" \/ (chat_pc = "raised" /\ chat_raised_in = "memory")
    IN  /\ ~store_interaction =>
               /\ saves = 0
               /\ all_saved = <<>>
               /\ mem_op = "__init__"
        /\ (store_interaction /\ ~saved) =>
               /\ saves = 0
               /\ all_saved = <<>>
               /\ mem_op = "__init__"
        /\ (store_interaction /\ saved) =>
               /\ saves = 1
               /\ chat_log[Len(chat_log)].call = "save_short_term"
               /\ chat_log[Len(chat_log)].did = integrated_response
               /\ integrated_response =
                      (IF chat_tool_names # <<>> THEN "integrated" ELSE "initial")
               /\ Len(all_saved) = 1
               /\ all_saved[1].assistant = ResponseText(integrated_response)
               /\ mem_op = "save_short_term"

\* C23: a chat_completion with store_interaction=True that gets past its Generator calls
\* calls save_short_term exactly once, as its last step and after its last Generator
\* call, with the response it returns as the assistant text: the short-term file becomes
\* the trimmed file with that Interaction appended. Before that step, and in a call with
\* store_interaction=False at any time, nothing is saved and the memory is unchanged.
\* (A save whose write to disk raises leaves the file as the failed write left it.)
C23_SaveOncePerCompletion ==
    [][   /\ SavedWhenReturned /\ SavedWhenReturned'
          /\ ~store_interaction => UNCHANGED mem_vars
          /\ chat_pc # "store" => UNCHANGED mem_vars
          /\ (chat_pc = "store" /\ store_interaction) =>
                 \E u \in UserMessages :
                     LET entry == [system |-> "s", user |-> u,
                                   assistant |-> ResponseText(integrated_response),
                                   timestamp |-> clock + 1]
                     IN  /\ all_saved' = <<entry>>
                         /\ integrated_response' = integrated_response
                         /\ mem_result' # "write_raised" =>
                                /\ short_term_file' =
                                       Trim(Append(short_term_file, entry), short_term_limit)
                                /\ short_term_counter' \in {0, short_term_counter + 1}]_vars

\* a completion with tools has stored its integrated response after the Interaction the
\* file already held
C23_Witness ==
    /\ chat_pc = "done"
    /\ store_interaction
    /\ chat_tool_names # <<>>
    /\ Len(short_term_file) = 2
    /\ short_term_file[2].assistant = "aa"
    /\ short_term_file[2] = all_saved[1]

\* a completion with tools and store_interaction=False has returned over a non-empty file
C23_WitnessOptOut ==
    /\ chat_pc = "done"
    /\ ~store_interaction
    /\ integrated_response = "integrated"
    /\ short_term_file # <<>>
    /\ short_term_counter = MaxInterval - 1

----------------------------------------------------------------------------
\* Claims about the RAG facade (checked under RagSpec).

\* the chunk texts of a list of result records
ResultTexts(rs) == [r \in 1 .. Len(rs) |-> rs[r].text]

\* the chunk texts ingest_documents hands to the store, for every `documents`: a str
\* document is the list of that one document
IngestedTexts ==
    {DocumentChunks(IF documents.type = "str" THEN <<documents.value>> ELSE documents.value) :
        documents \in Documents}

\* rs and result are a ranked list and an ending of query(query_text, top_k) on an index
\* with embeddings e and chunks c: no list where the call raises or the index was never
\* filled, else as many entries as [-top_k:] takes, each with the text and the score of
\* its index, no index twice, best score first, and no entry left out that scores
\* higher than one that is in
QueryReturns(e, c, query_text, top_k, embed_raises, rs, result) ==
    IF e.none
    THEN rs = <<>> /\ result = "ok"
    ELSE IF embed_raises
    THEN rs = <<>> /\ result = "embed_raised"
    ELSE IF DotRaises(e, Embed(query_text))
    THEN rs = <<>> /\ result = "raised"
    ELSE LET n == Len(e.rows)
             taken == {rs[a].index : a \in 1 .. Len(rs)}
         IN  /\ result = "ok"
             /\ Len(rs) = Len(LastN([r \in 1 .. n |-> r], top_k))
             /\ \A a \in 1 .. Len(rs) :
                    /\ rs[a].index \in 1 .. n
                    /\ rs[a].text = c[rs[a].index]
                    /\ rs[a].score = Similarity(e.rows[rs[a].index], Embed(query_text))
                    /\ \A b \in 1 .. Len(rs) :
                           a < b => /\ rs[a].index # rs[b].index
                                    /\ rs[a].score >= rs[b].score
                    /\ \A r \in (1 .. n) \ taken :
                           Similarity(e.rows[r], Embed(query_text)) <= rs[a].score

\* C24: every retrieve_context(documents, query, embed_fn, top_k) call does what
\* ingest_documents(documents) followed by query(query, top_k) does: the index it leaves
\* is the one the ingestion leaves (a str document counting as the list of that one
\* document), it raises where the ingestion or the query raises, its ranked list is one
\* the query returns on the index after the ingestion, and it returns the texts of that
\* list, in that order, joined by "\n\n".
C24_RetrieveContextIsIngestThenQuery ==
    [][last_op' = "retrieve_context" =>
          \E texts \in IngestedTexts, ingest_raises \in BOOLEAN, query_raises \in BOOLEAN :
              LET ingested == AddOutcome(embeddings, store_chunks, texts, ingest_raises)
              IN  /\ embeddings' = ingested.embeddings
                  /\ store_chunks' = ingested.chunks
                  /\ IF ingested.result # "ok"
                     THEN store_result' = ingested.result
                     ELSE /\ QueryReturns(ingested.embeddings, ingested.chunks, last_query',
                                          last_k', query_raises, results', store_result')
                          /\ store_result' = "ok" => context' = JoinBlank(ResultTexts(results'))
                          /\ store_result' # "ok" => context' = <<>>]_vars

\* a call over an index that held a chunk already has returned three texts, best first,
\* with a blank line between them
C24_Witness ==
    /\ last_op = "retrieve_context"
    /\ store_result = "ok"
    /\ last_query = "x"
    /\ last_k = 3
    /\ store_chunks = <<"x", "y", "x">>
    /\ ResultTexts(results) = <<"x", "x", "y">>
    /\ context = <<"x", "\n\n", "x", "\n\n", "y">>

\* C25: no step removes an entry of the index, and every ingest_documents call whose
\* embedding function works returns normally and appends exactly the chunks of its
\* documents, in order, after the existing entries: c chunk texts and c embeddings,
\* whether or not the same text was ingested before.
C25_IngestAppendsItsChunks ==
    [][/\ IsPrefix(store_chunks, store_chunks')
       /\ NumEmbeddings(embeddings') >= NumEmbeddings(embeddings)
       /\ (last_op' = "ingest_documents" /\ store_result' # "embed_raised") =>
              /\ store_result' = "ok"
              /\ \E documents \in Documents :
                     LET texts == DocumentChunks(AsList(documents))
                     IN  /\ store_chunks' = store_chunks \o texts
                         /\ NumEmbeddings(embeddings') =
                                NumEmbeddings(embeddings) + Len(texts)]_vars

\* What does hold: a call that returns normally on an index holding no empty array
\* appends its c chunk texts and c embeddings, duplicates included.
C25_AppendsWhenReturning ==
    [][/\ IsPrefix(store_chunks, store_chunks')
       /\ (last_op' = "ingest_documents" /\ store_result' = "ok"
           /\ (embeddings.none \/ (Len(embeddings.shape) = 2 /\ embeddings.shape[2] > 0))) =>
              \E documents \in Documents :
                  LET texts == DocumentChunks(AsList(documents))
                  IN  /\ store_chunks' = store_chunks \o texts
                      /\ NumEmbeddings(embeddings') =
                             NumEmbeddings(embeddings) + Len(texts)]_vars

----------------------------------------------------------------------------
\* Claims about reboot_memory and the long-term file (checked under Spec and ReadSpec).

\* reboot_memory has run and save_short_term has not been called since
NoSaveSinceReboot == rebooted_at > 0 /\ clock = rebooted_at

\* until the first save after reboot_memory both files hold the empty list and both
\* retrievals return []
EmptyAfterReboot ==
    NoSaveSinceReboot =>
        /\ short_term_file = <<>> /\ short_term_disk = "json"
        /\ long_term_file = <<>> /\ long_term_disk = "json"
        /\ mem_op \in {"retrieve_short_term", "retrieve_long_term"} =>
               (retrieved = <<>> /\ mem_result = "ok")

\* C26 as stated: after reboot_memory both files hold the empty list, retrieve_short_term
\* and retrieve_long_term return [], and the next save_short_term leaves a short-term
\* file that holds exactly the interaction it was given.
C26_RebootThenSaveHoldsOnlyNew ==
    [][/\ EmptyAfterReboot /\ EmptyAfterReboot'
       /\ (NoSaveSinceReboot /\ mem_op' = "save_short_term"
           /\ short_term_limit >= 1 /\ long_term_interval >= 1) =>
              short_term_file' = <<all_saved'[Len(all_saved')]>>]_vars

\* C26, amended: after reboot_memory both files hold the empty list, retrieve_short_term
\* and retrieve_long_term return [], and the next save_short_term leaves a short-term
\* file that holds exactly the interaction it was given when that interaction is within
\* short_term_limit, and nothing when it is not.
C26_RebootThenSaveWithinLimit ==
    [][/\ EmptyAfterReboot /\ EmptyAfterReboot'
       /\ (NoSaveSinceReboot /\ mem_op' = "save_short_term") =>
              LET entry == all_saved'[Len(all_saved')]
              IN  short_term_file' = IF EntryTokens(entry) <= short_term_limit
                                     THEN <<entry>> ELSE <<>>]_vars

\* a reboot that wiped an Insight and two Interactions, then a save: the file holds the
\* third interaction only
C26_Witness ==
    /\ rebooted_at = 2
    /\ clock = 3
    /\ promoted_on # {}
    /\ long_term_file = <<>>
    /\ mem_op = "save_short_term"
    /\ short_term_file = <<all_saved[3]>>

\* retrieve_long_term after a reboot that followed a promotion
C26_WitnessLongTerm ==
    /\ NoSaveSinceReboot
    /\ promoted_on # {}
    /\ mem_op = "retrieve_long_term"
    /\ retrieved = <<>>

\* the insight texts of a long-term file, in file order
InsightTexts(file) == [k \in 1 .. Len(file) |-> file[k].insight]

\* C27: while long_term_memory.json is a readable list, every step other than
\* reboot_memory keeps the Insights it holds, unchanged and in place: save_long_term
\* adds exactly one Insight after them, save_short_term adds one (a promotion that
\* answered "yes") or none, whatever it evicts from the short-term file, the retrievals
\* add none, and retrieve_long_term returns the texts of all Insights in file order.
C27_LongTermAppendOnly ==
    [][(long_term_disk = "json" /\ long_term_disk' = "json") =>
          /\ mem_op' # "reboot_memory" =>
                 /\ IsPrefix(long_term_file, long_term_file')
                 /\ Len(long_term_file') <= Len(long_term_file) + 1
          /\ mem_op' = "save_long_term" =>
                 /\ mem_result' = "ok"
                 /\ Len(long_term_file') = Len(long_term_file) + 1
                 /\ long_term_file'[Len(long_term_file')].insight = "insight"
          /\ (mem_op' = "save_short_term" /\ long_term_file' # long_term_file) =>
                 /\ promo'.invoked
                 /\ promo'.decision = "yes"
          /\ mem_op' \in {"retrieve_short_term", "retrieve_long_term"} =>
                 long_term_file' = long_term_file
          /\ mem_op' = "retrieve_long_term" =>
                 /\ mem_result' = "ok"
                 /\ retrieved' = InsightTexts(long_term_file)]_vars

\* retrieve_long_term returns the Insight of an earlier run and, after it, the one saved
\* in this run, after a save_short_term that evicted all of the short-term file
C27_Witness ==
    /\ mem_op = "retrieve_long_term"
    /\ mem_result = "ok"
    /\ retrieved = <<"old", "insight">>
    /\ Len(all_saved) = 1
    /\ short_term_file = <<>>

\* C28: a Memory with a non-positive short_term_limit or a non-positive
\* long_term_interval never completes a save_short_term: the constructor or the first
\* save raises.
C28_InvalidConfigurationFailsFast ==
    (short_term_limit <= 0 \/ long_term_interval <= 0) =>
        ~(mem_op = "save_short_term" /\ mem_result = "ok")

----------------------------------------------------------------------------
\* Claims about storage-write failures (checked under ChatSpec).

\* a failed write has ended chat_completion with an exception
WriteFailureRaised ==
    /\ mem_result = "write_raised" =>
           /\ mem_op = "save_short_term"
           /\ chat_pc = "raised"
           /\ chat_raised_in = "memory"
           /\ chat_log[Len(chat_log)].call = "save_short_term"
    /\ chat_pc = "done" => mem_result \in {"none", "ok"}

\* C29: a write that raises inside save_short_term, or inside the save_long_term of its
\* promotion, is not swallowed: save_short_term ends with that exception and so does the
\* chat_completion that called it, which returns no response; the steps that follow the
\* failed write in save_short_term are not taken (a failed short-term write: no counter
\* increment and no promotion; a failed long-term write: no counter reset).
C29_WriteFailurePropagates ==
    [][/\ WriteFailureRaised /\ WriteFailureRaised'
       /\ mem_result' = "write_raised" =>
            /\ chat_pc = "store"
            /\ store_interaction
            /\ IF promo'.invoked
               THEN short_term_counter' = short_term_counter + 1
               ELSE /\ short_term_counter' = short_term_counter
                    /\ long_term_file' = long_term_file]_vars

\* the write of long_term_memory.json failed in the promotion of the save of a
\* completion with tools: the call raised after its two Generator calls
C29_Witness ==
    /\ mem_result = "write_raised"
    /\ promo.invoked
    /\ long_term_disk = "corrupt"
    /\ chat_pc = "raised"
    /\ integrated_response = "integrated"
    /\ short_term_file # <<>>

\* the write of short_term_memory.json failed and left the file truncated
C29_WitnessShortTerm ==
    /\ mem_result = "write_raised"
    /\ ~promo.invoked
    /\ short_term_disk = "corrupt"
    /\ chat_pc = "raised"

----------------------------------------------------------------------------
\* Claims about structured output (checked under LoopSpec).

\* no exception comes out of json.loads, and the error value of plan is what Predict
\* is given
ErrorValueHandedOn ==
    /\ raised_in # "structured_output"
    /\ outs["plan"].keys # {} =>
           /\ outs["plan"].keys = {"error", "detail"}
           /\ ~outs["plan"].marker
           /\ ("predict" \in ArxDoneAt(pc) \/ pc = "predict") => outs["plan"].iter = i + 1
           /\ "predict" \in ArxDoneAt(pc) => prompts["predict"].texts = <<outs["plan"]>>

----------------------------------------------------------------------------
\* Claims about the Memory store, continued (checked under Spec and SaveSpec).

\* C31: in every state reachable by save_short_term and reboot_memory, a reader with
\* the limit the data was written with gets exactly the persisted short-term sequence
\* (what retrieve_short_term has just returned is the file); a reader with any other
\* limit gets a suffix of it, and a strict one only if its limit is smaller than the
\* writer's.
C31_ReadFilterIsNoOp ==
    /\ short_term_disk = "json"
    /\ retrieve_short_term(short_term_file, short_term_limit) = short_term_file
    /\ mem_op = "retrieve_short_term" => retrieved = short_term_file
    /\ \A reader_limit \in Limits :
           LET read == retrieve_short_term(short_term_file, reader_limit)
           IN  /\ IsSuffix(read, short_term_file)
               /\ read # short_term_file => reader_limit < short_term_limit

\* a file that fills the limit exactly, after an eviction, was read back whole
C31_Witness ==
    /\ mem_op = "retrieve_short_term"
    /\ Len(short_term_file) >= 2
    /\ Len(short_term_file) < Len(SinceReboot)
    /\ TotalTokens(short_term_file) = short_term_limit
    /\ retrieved = short_term_file

\* a reader with a smaller limit would get a strict, non-empty suffix of the file
C31_WitnessSmallerLimit ==
    /\ Len(short_term_file) >= 2
    /\ \E reader_limit \in Limits :
           /\ reader_limit < short_term_limit
           /\ retrieve_short_term(short_term_file, reader_limit) # short_term_file
           /\ retrieve_short_term(short_term_file, reader_limit) # <<>>

\* the number c of saves between the last promotion before the last reboot_memory and
\* that reboot
SavesBeforeReboot ==
    LET before == {0} \cup {p \in promoted_on : p <= rebooted_at}
    IN  rebooted_at - (CHOOSE p \in before : \A q \in before : q <= p)

\* C33: reboot_memory leaves the promotion counter as it is: after c saves since the
\* last promotion (0 < c < N) and a reboot, the counter is still c and the saves since
\* the reboot count on from it, so none of them promotes before the (N - c)-th, and
\* the (N - c)-th does.
C33_RebootKeepsCounter ==
    (rebooted_at > 0 /\ 0 < SavesBeforeReboot /\ SavesBeforeReboot < long_term_interval) =>
        LET due == rebooted_at + (long_term_interval - SavesBeforeReboot)
        IN  /\ \A k \in rebooted_at + 1 .. clock :
                   /\ k < due => k \notin promoted_on
                   /\ k = due => k \in promoted_on
            /\ clock < due => short_term_counter = SavesBeforeReboot + (clock - rebooted_at)

\* one save, a reboot, and the first save after the reboot promoted although the
\* interval is larger than one
C33_Witness ==
    /\ mem_op = "save_short_term"
    /\ rebooted_at > 0
    /\ SavesBeforeReboot = 1
    /\ long_term_interval > SavesBeforeReboot
    /\ clock = rebooted_at + long_term_interval - SavesBeforeReboot
    /\ clock \in promoted_on
    /\ promo.invoked

\* C34: when store_long_term_memory raises inside a save_short_term call (a Generator
\* call of it raises), the call raises after the interaction was persisted and with the
\* counter incremented and not reset; a counter that has reached N makes every
\* following save invoke the promotion again, whatever else happens in between, until
\* a promotion returns, which resets the counter to 0.
C34_FailedPromotionIsRetried ==
    [][/\ mem_op' = "save_short_term" =>
              /\ promo'.invoked = PromotionDue(short_term_counter + 1, long_term_interval)
              /\ short_term_counter >= long_term_interval => promo'.invoked
              /\ (promo'.decision = "raise" \/ mem_result' = "raised") =>
                     /\ promo'.invoked
                     /\ mem_result' = "raised"
                     /\ short_term_file' =
                            Trim(Append(short_term_file, all_saved'[Len(all_saved')]),
                                 short_term_limit)
                     /\ short_term_counter' = short_term_counter + 1
                     /\ short_term_counter' >= long_term_interval
              /\ (promo'.invoked /\ mem_result' = "ok") => short_term_counter' = 0
              /\ ~promo'.invoked =>
                     (mem_result' = "ok" /\ short_term_counter' = short_term_counter + 1)
       /\ mem_op' # "save_short_term" => short_term_counter' = short_term_counter]_vars

\* the promotion of the N-th save raised and so did the one the next save invoked: the
\* counter is past N and the file holds the interaction of the failed call
C34_Witness ==
    /\ mem_op = "save_short_term"
    /\ mem_result = "raised"
    /\ long_term_interval >= 2
    /\ clock = long_term_interval + 1
    /\ promoted_on = {clock - 1, clock}
    /\ short_term_counter = long_term_interval + 1
    /\ short_term_file # <<>>
    /\ short_term_file[Len(short_term_file)] = all_saved[clock]

\* the promotion the next save invoked returned: the counter is 0 again
C34_WitnessCompleted ==
    /\ mem_op = "save_short_term"
    /\ mem_result = "ok"
    /\ long_term_interval >= 2
    /\ clock = long_term_interval + 1
    /\ promoted_on = {clock - 1, clock}
    /\ short_term_counter = 0

\* C35: a save_short_term call whose own interaction has len(user)+len(assistant) above
\* short_term_limit leaves the persisted short-term sequence empty; the call still
\* counts for the promotion (it is invoked exactly when the incremented counter has
\* reached N, and the counter is the incremented one otherwise); and a promotion that
\* finds no short-term entry makes no Generator call, adds no Insight and returns, so
\* the counter is reset.
C35_OversizedSaveEmptiesStore ==
    [][mem_op' = "save_short_term" =>
          /\ EntryTokens(all_saved'[Len(all_saved')]) > short_term_limit =>
                 /\ short_term_file' = <<>>
                 /\ promo'.invoked = PromotionDue(short_term_counter + 1, long_term_interval)
                 /\ ~promo'.invoked => short_term_counter' = short_term_counter + 1
          /\ (promo'.invoked /\ short_term_file' = <<>>) =>
                 /\ promo'.gen_calls = 0
                 /\ promo'.decision = "none"
                 /\ long_term_file' = long_term_file
                 /\ mem_result' = "ok"
                 /\ short_term_counter' = 0]_vars

\* an interaction that fitted was saved, then one above the limit on the save that was
\* due to promote: the file is empty, nothing was asked of the Generator and no
\* Insight was added
C35_Witness ==
    /\ mem_op = "save_short_term"
    /\ short_term_limit >= 1
    /\ Len(SinceReboot) >= 2
    /\ EntryTokens(all_saved[clock - 1]) <= short_term_limit
    /\ EntryTokens(all_saved[clock]) > short_term_limit
    /\ short_term_file = <<>>
    /\ promo.invoked
    /\ promo.gen_calls = 0
    /\ long_term_file = <<>>
    /\ short_term_counter = 0

\* the same save when no promotion was due: the counter went up by one
C35_WitnessCounted ==
    /\ mem_op = "save_short_term"
    /\ EntryTokens(all_saved[clock]) > short_term_limit
    /\ short_term_limit >= 1
    /\ short_term_file = <<>>
    /\ ~promo.invoked
    /\ short_term_counter = 1

----------------------------------------------------------------------------
\* Claims about two Memory instances over the same files (checked under SharedSpec).

\* C32: with callers that serialize their save_short_term calls no saved interaction
\* is lost: the persisted sequence is the longest suffix of all saved interactions that
\* is within short_term_limit, so it holds every one of them while their total is
\* within the limit, and a call in progress has read the file as it is now. (Without
\* serialization the state C32_Witness is reached: the lost update.)
C32_SerializedSavesLoseNothing ==
    serialized =>
        /\ short_term_file = LongestFittingSuffix(all_saved, short_term_limit)
        /\ TotalTokens(all_saved) <= short_term_limit => short_term_file = all_saved
        /\ \A w \in Writers : writer_pc[w] = "loaded" => writer_data[w] = short_term_file

\* two instances interleaved the read and the write of their calls: both calls have
\* returned normally, the two interactions fit the limit together, and the file holds
\* the second one only
C32_Witness ==
    /\ ~serialized
    /\ InProgress = 0
    /\ mem_result = "ok"
    /\ Len(all_saved) = 2
    /\ TotalTokens(all_saved) <= short_term_limit
    /\ short_term_file = <<all_saved[2]>>
    /\ writer_counter = [w \in Writers |-> 1]

----------------------------------------------------------------------------
\* Claims about the saves and the feedback of the loops (checked under LoopSpec).

\* the save_short_term calls the phases of one iteration make
SavesPerIteration(kind) == IF kind = "base" THEN 1 ELSE IF kind = "react" THEN 3 ELSE 6

C36_WitnessReact ==
    /\ loop = "react"
    /\ pc = "done"
    /\ iterations = 2
    /\ save_calls = 6

\* the output of the Critique re-run is in no prompt and is not the response; what
\* Create and Synthesize are given is the Critique of their own iteration, made from
\* the Draft of that iteration
RerunUnused ==
    /\ \A ph \in AllPhases : \A k \in 1 .. Len(prompts[ph].texts) :
           prompts[ph].texts[k].phase # "recritique"
    /\ response.phase # "recritique"
    /\ pc \in {"create", "synthesize", "check", "feedback"} =>
           /\ outs["critique"].phase = "critique"
           /\ outs["critique"].iter = i + 1
           /\ outs["draft"].iter = i + 1
           /\ prompts["critique"].texts = <<outs["draft"]>>
    /\ outs["critique"].phase = "recritique" =>
           pc \in {"select", "plan", "predict", "draft", "critique", "done", "raised"}

C37_WitnessNextIteration ==
    /\ loop = "arx"
    /\ pc = "check"
    /\ i = 1
    /\ Len(cumulative_feedback) = 1
    /\ outs["critique"].phase = "critique"
    /\ prompts["synthesize"].texts[4] = outs["critique"]

----------------------------------------------------------------------------
\* Claims about the index of a TextGen instance (checked under ContextSpec).

\* the number of chunks of the document retrieve_memory_context builds from a long-term
\* file
InsightChunkCount(file) ==
    Len(DocumentChunks(<<JoinLines([k \in 1 .. Len(file) |-> file[k].insight])>>))

\* a step of retrieve_memory_context (which writes nothing to the Memory)
LookupStep == last_op' = "retrieve_memory_context" /\ UNCHANGED mem_vars

\* C38: every retrieve_memory_context call over a non-empty long-term store whose
\* embedding function works grows the index, chunk texts and embeddings alike, by twice
\* the chunk count of the joined document; over an empty long-term store the call
\* returns "" and leaves the index as it is, even with an embedding function that would
\* raise if it were called.
C38_LookupIngestsTwice ==
    [][LookupStep =>
          IF long_term_file = <<>>
          THEN /\ store_result' = "ok"
               /\ context' = <<>>
               /\ embeddings' = embeddings
               /\ store_chunks' = store_chunks
          ELSE store_result' # "embed_raised" =>
                   /\ Len(store_chunks') = Len(store_chunks) + 2 * InsightChunkCount(long_term_file)
                   /\ NumEmbeddings(embeddings') =
                          NumEmbeddings(embeddings) + 2 * InsightChunkCount(long_term_file)]_vars

\* What does hold: over an empty long-term store the call returns "" and touches
\* nothing; over a store whose document has c >= 1 chunks, on an index holding no empty
\* array, a call whose embedding function works returns and appends the c chunk texts
\* twice, with 2c embeddings.
C38_TwiceWhenChunks ==
    [][LookupStep =>
          IF long_term_file = <<>>
          THEN /\ store_result' = "ok"
               /\ context' = <<>>
               /\ added' = 0
               /\ embeddings' = embeddings
               /\ store_chunks' = store_chunks
          ELSE (/\ store_result' # "embed_raised"
                /\ InsightChunkCount(long_term_file) >= 1
                /\ (embeddings.none \/ (Len(embeddings.shape) = 2 /\ embeddings.shape[2] > 0))) =>
                   LET texts == DocumentChunks(<<JoinLines(InsightTexts(long_term_file))>>)
                   IN  /\ store_result' = "ok"
                       /\ store_chunks' = store_chunks \o texts \o texts
                       /\ added' = 2 * Len(texts)
                       /\ NumEmbeddings(embeddings') =
                              NumEmbeddings(embeddings) + 2 * Len(texts)]_vars

\* a lookup over a one-insight store has put the chunk of the insight into a fresh
\* index twice
C38_TwiceReached ==
    /\ last_op = "retrieve_memory_context"
    /\ store_result = "ok"
    /\ long_term_file # <<>>
    /\ store_chunks = <<"x", "x">>
    /\ added = 2
    /\ context = <<"x", "\n\n", "x">>

\* a step of one of the two retrieval calls of a completion that searched the index
RetrievalStep ==
    /\ UNCHANGED mem_vars
    /\ \/ last_op' = "retrieve_context"
       \/ last_op' = "retrieve_memory_context" /\ long_term_file # <<>>

\* C39: no call of a TextGen instance removes an entry of its index, and every
\* retrieval call that returns (the summary of a tool output and the memory lookup
\* alike) ranks the whole index as the call left it, the chunks of earlier calls
\* included, and returns the texts of the best top_k of them: nothing restricts the
\* answer to the chunks of the call's own document.
C39_IndexSharedAcrossCalls ==
    [][   /\ IsPrefix(store_chunks, store_chunks')
          /\ NumEmbeddings(embeddings') >= NumEmbeddings(embeddings)
          /\ (RetrievalStep /\ store_result' = "ok") =>
                 /\ added' <= Len(store_chunks')
                 /\ QueryReturns(embeddings', store_chunks', last_query', last_k', FALSE,
                                 results', "ok")
                 /\ context' = JoinBlank(ResultTexts(results'))]_vars

\* the summary of the tool output "y" is the chunk "x" that an earlier memory lookup put
\* into the index: the one text returned is none of the call's own document
C39_Witness ==
    /\ last_op = "retrieve_context"
    /\ store_result = "ok"
    /\ last_k = 1
    /\ added = 1
    /\ store_chunks = <<"x", "x", "y">>
    /\ Len(results) = 1
    /\ results[1].index <= Len(store_chunks) - added
    /\ context = <<"x">>

\* a memory lookup has returned, first of all, the chunk of an earlier tool output
C39_WitnessLookup ==
    /\ last_op = "retrieve_memory_context"
    /\ store_result = "ok"
    /\ added = 2
    /\ store_chunks = <<"x", "y", "y">>
    /\ results[1].index = 1
    /\ context = <<"x", "\n\n", "y", "\n\n", "y">>

====
